---- MODULE Spec2Model ----
(***************************************************************************)
(* A model of pyEDAA.Reports' JUnit unit-test report handling:             *)
(*   - the entity model (Testcase, Testsuite, TestsuiteSummary) kept in an *)
(*     arena of objects, with parent back-references and insertion-ordered *)
(*     child dictionaries;                                                 *)
(*   - the status/count aggregation of the generic JUnit classes and of    *)
(*     the GoogleTest dialect classes;                                     *)
(*   - the JUnitDocument protocol Read / Parse / Generate / Write over a   *)
(*     small file system and XML element trees;                            *)
(*   - the dialect mapper of the GoogleTest dialect (FromTestsuite and     *)
(*     ToTestsuite);                                                       *)
(*   - Copy, the annotation store, and the tree iterator (Iterate).        *)
(***************************************************************************)
EXTENDS Integers, Sequences, FiniteSets, TLC

VARIABLES
    dialect,      \* which classes are instantiated: "JUnit" or "GoogleTest"
    cases,        \* arena of Testcase objects (GoogleTest: Testclass objects), id = index
    suites,       \* arena of Testsuite objects, id = index
    summary,      \* the TestsuiteSummary / JUnitDocument object
    disk,         \* file system: path -> file content
    xmlDocument,  \* JUnitDocument._xmlDocument
    lastOp,       \* the call made last
    lastResult,   \* "ok" or the name of the exception the last call raised
    ret,          \* the 5-tuple the last Aggregate call returned
    repeat,       \* 1 when the last call repeated the call before it, else 0
    phase,        \* progress of the call script Read, Parse, Generate, Write
    utTree,       \* arena of the suites of a canonical (Unittesting) tree, 1 = its root
    juSuite,      \* a GoogleTest-dialect Testsuite with its testclasses
    yielded       \* the nodes the last call yielded, when it was an iteration

vars == <<dialect, cases, suites, summary, disk, xmlDocument,
          lastOp, lastResult, ret, repeat, phase, utTree, juSuite, yielded>>

modelVars == <<cases, suites, summary>>
docVars   == <<disk, xmlDocument, phase>>
flatVars  == <<utTree, juSuite>>

----------------------------------------------------------------------------
(* Bounds of the model. *)

MaxCases  == 2      \* Testcase objects in the arena
MaxSuites == 2      \* Testsuite objects in the arena

(* Python's None for string-valued and for integer-valued fields. *)
None    == "None"
NoneInt == -1

CaseNames     == {"a", "b"}
SuiteNames    == {"S", "T"}
ClassnameOf   == "pkg.Cls"
HostnameOf    == "host"

TestcaseStatuses  == {"Unknown", "Passed", "Failed", "Skipped", "Errored", "Weak"}
TestsuiteStatuses == {"Unknown", "Passed", "Failed", "Skipped", "Errored", "Empty"}

AssertionCounts == {NoneInt, 0, 1}

----------------------------------------------------------------------------
(* Insertion-ordered dictionaries (Python dict): sequences of <<key, value>>. *)

DictHas(d, k) == \E i \in 1..Len(d) : d[i][1] = k

DictGet(d, k) == d[CHOOSE i \in 1..Len(d) : d[i][1] = k][2]

DictPut(d, k, v) ==
    IF DictHas(d, k)
    THEN [i \in 1..Len(d) |-> IF d[i][1] = k THEN <<k, v>> ELSE d[i]]
    ELSE Append(d, <<k, v>>)

DictValues(d) == [i \in 1..Len(d) |-> d[i][2]]

DictKeys(d) == [i \in 1..Len(d) |-> d[i][1]]

SeqRange(s) == {s[i] : i \in 1..Len(s)}

----------------------------------------------------------------------------
(* Objects. *)

ZeroTuple == [tests |-> 0, skipped |-> 0, errored |-> 0, failed |-> 0, passed |-> 0]
NoTuple   == [tests |-> -1, skipped |-> -1, errored |-> -1, failed |-> -1, passed |-> -1]

\* Base.__init__ + Testcase.__init__: the fields of a new Testcase (dict: the
\* annotations, Base._dict)
TestcaseObject(name, classname, duration, status, assertionCount, parent) ==
    [name |-> name, classname |-> classname, duration |-> duration,
     status |-> status, assertionCount |-> assertionCount, parent |-> parent,
     dict |-> <<>>]

\* TestsuiteBase.__init__: counters start at zero, no annotations (Base.__init__)
TestsuiteBaseFields(status) ==
    [status |-> status, tests |-> 0, skipped |-> 0, errored |-> 0, failed |-> 0, passed |-> 0,
     dict |-> <<>>]

\* Testsuite.__init__: the fields of a new Testsuite (parent: 0 = None, 1 = the summary)
TestsuiteObject(name, hostname, duration, status, parent) ==
    [name |-> name, hostname |-> hostname, duration |-> duration, parent |-> parent,
     testcases |-> <<>>] @@ TestsuiteBaseFields(status)

\* TestsuiteSummary.__init__ / JUnitDocument.__init__
SummaryObject(name) ==
    [name |-> name, duration |-> NoneInt, testsuites |-> <<>>] @@ TestsuiteBaseFields("Unknown")

Op(op, node, strict) ==
    [op |-> op, node |-> node, strict |-> strict, args |-> <<>>, scheme |-> {},
     path |-> None, overwrite |-> FALSE, regenerate |-> FALSE]

\* a call that is given objects: args are their ids
OpWith(op, node, args) == [Op(op, node, FALSE) EXCEPT !.args = args]

\* a call that is given an IterationScheme: the set of its flags
OpScheme(op, node, scheme) == [Op(op, node, FALSE) EXCEPT !.scheme = scheme]

DocOp(op, path, overwrite, regenerate) ==
    [op |-> op, node |-> 0, strict |-> FALSE, args |-> <<>>, scheme |-> {},
     path |-> path, overwrite |-> overwrite, regenerate |-> regenerate]

----------------------------------------------------------------------------
(* Status Aggregator: generic JUnit classes. *)

\* Testcase.Aggregate: resolves an Unknown status from the assertion count.
\* Reading self._failedAssertionCount raises AttributeError: the class has no
\* such attribute (no slot, never assigned).
TestcaseAggregate(tc, strict) ==
    IF tc.status = "Unknown"
    THEN IF tc.assertionCount = NoneInt
         THEN [exc |-> "ok", tc |-> [tc EXCEPT !.status = "Passed"]]
         ELSE IF tc.assertionCount = 0
         THEN [exc |-> "ok", tc |-> [tc EXCEPT !.status = "Weak"]]
         ELSE [exc |-> "AttributeError", tc |-> tc]
    ELSE [exc |-> "ok", tc |-> tc]

\* TestsuiteBase.Aggregate: the loop over child suites is commented out
TestsuiteBaseAggregate == ZeroTuple

\* Testsuite.Aggregate, loop body: which statuses are counted (the others raise)
Countable(status) == status \in {"Skipped", "Errored", "Passed", "Failed"}

\* mutant: a skipped case is counted as skipped and as passed
CountTestcase_SkippedAlsoPassed(acc, status) ==
    LET a == [acc EXCEPT !.tests = @ + 1]
    IN  IF status = "Skipped" THEN [a EXCEPT !.skipped = @ + 1, !.passed = @ + 1]
        ELSE IF status = "Errored" THEN [a EXCEPT !.errored = @ + 1]
        ELSE IF status = "Passed" THEN [a EXCEPT !.passed = @ + 1]
        ELSE IF status = "Failed" THEN [a EXCEPT !.failed = @ + 1]
        ELSE a

\* mutant: a failed case is counted as errored
CountTestcase_FailedAsErrored(acc, status) ==
    LET a == [acc EXCEPT !.tests = @ + 1]
    IN  IF status = "Skipped" THEN [a EXCEPT !.skipped = @ + 1]
        ELSE IF status = "Errored" THEN [a EXCEPT !.errored = @ + 1]
        ELSE IF status = "Passed" THEN [a EXCEPT !.passed = @ + 1]
        ELSE IF status = "Failed" THEN [a EXCEPT !.errored = @ + 1]
        ELSE a

\* Testsuite.Aggregate, loop body: tests += 1 and the counter of the status += 1
CountTestcase(acc, status) ==
    LET a == [acc EXCEPT !.tests = @ + 1]
    IN  IF status = "Skipped" THEN [a EXCEPT !.skipped = @ + 1]
        ELSE IF status = "Errored" THEN [a EXCEPT !.errored = @ + 1]
        ELSE IF status = "Passed" THEN [a EXCEPT !.passed = @ + 1]
        ELSE IF status = "Failed" THEN [a EXCEPT !.failed = @ + 1]
        ELSE a

\* Testsuite.Aggregate: the loop over self._testcases.values(); it stops at the
\* first exception, the statuses resolved so far stay resolved.
RECURSIVE FoldTestcases(_, _, _, _, _)
FoldTestcases(cs, ids, i, strict, acc) ==
    IF i > Len(ids)
    THEN [exc |-> "ok", cases |-> cs, acc |-> acc]
    ELSE LET id  == ids[i]
             r   == TestcaseAggregate(cs[id], strict)
             cs1 == [cs EXCEPT ![id] = r.tc]
         IN  IF r.exc # "ok"
             THEN [exc |-> r.exc, cases |-> cs, acc |-> acc]
             ELSE IF Countable(r.tc.status)
             THEN FoldTestcases(cs1, ids, i + 1, strict, CountTestcase(acc, r.tc.status))
             ELSE [exc |-> "UnittestException", cases |-> cs1, acc |-> acc]

\* mutant: failed is tested before errored
DeriveStatus_FailedFirst(tests, skipped, errored, failed, passed) ==
    IF failed > 0 THEN "Failed"
    ELSE IF errored > 0 THEN "Errored"
    ELSE IF tests = 0 THEN "Empty"
    ELSE IF tests - skipped = passed THEN "Passed"
    ELSE IF tests = skipped THEN "Skipped"
    ELSE "Unknown"

\* Testsuite.Aggregate / TestsuiteSummary.Aggregate: the status chain
DeriveStatus(tests, skipped, errored, failed, passed) ==
    IF errored > 0 THEN "Errored"
    ELSE IF failed > 0 THEN "Failed"
    ELSE IF tests = 0 THEN "Empty"
    ELSE IF tests - skipped = passed THEN "Passed"
    ELSE IF tests = skipped THEN "Skipped"
    ELSE "Unknown"

\* mutant: the counters are incremented
StoreCounters_Increment(node, acc) ==
    [node EXCEPT !.tests = @ + acc.tests, !.skipped = @ + acc.skipped, !.errored = @ + acc.errored,
                 !.failed = @ + acc.failed, !.passed = @ + acc.passed]

\* self._tests = tests ... self._passed = passed: the counters are overwritten
StoreCounters(node, acc) ==
    [node EXCEPT !.tests = acc.tests, !.skipped = acc.skipped, !.errored = acc.errored,
                 !.failed = acc.failed, !.passed = acc.passed]

StoreStatus(node, acc) ==
    [node EXCEPT !.status = DeriveStatus(acc.tests, acc.skipped, acc.errored, acc.failed, acc.passed)]

\* Testsuite.Aggregate on suite s of the arenas (cs, ss)
TestsuiteAggregate(cs, ss, s, strict) ==
    LET f == FoldTestcases(cs, DictValues(ss[s].testcases), 1, strict, TestsuiteBaseAggregate)
    IN  IF f.exc # "ok"
        THEN [exc |-> f.exc, cases |-> f.cases, suites |-> ss, acc |-> NoTuple]
        ELSE [exc |-> "ok", cases |-> f.cases,
              suites |-> [ss EXCEPT ![s] = StoreStatus(StoreCounters(@, f.acc), f.acc)],
              acc |-> f.acc]

\* TestsuiteSummary.Aggregate: takes the tuple of TestsuiteBase.Aggregate
TestsuiteSummaryAggregate(sm) ==
    LET acc == TestsuiteBaseAggregate
    IN  [exc |-> "ok", summary |-> StoreStatus(StoreCounters(sm, acc), acc), acc |-> acc]

----------------------------------------------------------------------------
(* Status Aggregator: GoogleTest dialect classes. Their base classes live in *)
(* the JUnit package, whose code is not part of the sources at hand; the      *)
(* definitions marked "base class" follow the design description.             *)

\* base class, Testclass.Aggregate: a testclass is aggregated as a pseudo-case.
\* zeroFailed: whether the node has no failed assertion.
TestclassAggregate(tc, strict, zeroFailed) ==
    IF tc.status = "Unknown"
    THEN IF tc.assertionCount = NoneInt
         THEN [tc EXCEPT !.status = "Passed"]
         ELSE IF tc.assertionCount = 0
         THEN [tc EXCEPT !.status = IF strict THEN "Failed" ELSE "Weak"]
         ELSE IF zeroFailed
         THEN [tc EXCEPT !.status = "Passed"]
         ELSE [tc EXCEPT !.status = "Failed"]
    ELSE tc

\* base class, Testsuite.Aggregate as called by super().Aggregate(): the tuple
\* accumulated from nested child suites; a flattened suite holds none.
ju_TestsuiteAggregate == ZeroTuple

\* GoogleTestJUnit.Testsuite.Aggregate, loop body
GT_Countable(status) == status \in {"Skipped", "Errored", "Passed", "Failed"}

GT_CountTestclass(acc, status) ==
    LET a == [acc EXCEPT !.tests = @ + 1]
    IN  IF status = "Skipped" THEN [a EXCEPT !.skipped = @ + 1]
        ELSE IF status = "Errored" THEN [a EXCEPT !.errored = @ + 1]
        ELSE IF status = "Passed" THEN [a EXCEPT !.passed = @ + 1]
        ELSE IF status = "Failed" THEN [a EXCEPT !.failed = @ + 1]
        ELSE a

\* GoogleTestJUnit.Testsuite.Aggregate: the loop over self._testclasses.values()
RECURSIVE GT_FoldTestclasses(_, _, _, _, _, _)
GT_FoldTestclasses(cs, ids, i, strict, zf, acc) ==
    IF i > Len(ids)
    THEN [exc |-> "ok", cases |-> cs, acc |-> acc]
    ELSE LET id  == ids[i]
             tc  == TestclassAggregate(cs[id], strict, id \in zf)
             cs1 == [cs EXCEPT ![id] = tc]
         IN  IF GT_Countable(tc.status)
             THEN GT_FoldTestclasses(cs1, ids, i + 1, strict, zf, GT_CountTestclass(acc, tc.status))
             ELSE [exc |-> "UnittestException", cases |-> cs1, acc |-> acc]

\* GoogleTestJUnit.Testsuite.Aggregate / TestsuiteSummary.Aggregate: the status chain
GT_DeriveStatus(tests, skipped, errored, failed, passed) ==
    IF errored > 0 THEN "Errored"
    ELSE IF failed > 0 THEN "Failed"
    ELSE IF tests = 0 THEN "Empty"
    ELSE IF tests - skipped = passed THEN "Passed"
    ELSE IF tests = skipped THEN "Skipped"
    ELSE "Unknown"

GT_StoreCounters(node, acc) ==
    [node EXCEPT !.tests = acc.tests, !.skipped = acc.skipped, !.errored = acc.errored,
                 !.failed = acc.failed, !.passed = acc.passed]

GT_StoreStatus(node, acc) ==
    [node EXCEPT !.status = GT_DeriveStatus(acc.tests, acc.skipped, acc.errored, acc.failed, acc.passed)]

\* GoogleTestJUnit.Testsuite.Aggregate on suite s of the arenas (cs, ss)
GT_TestsuiteAggregate(cs, ss, s, strict, zf) ==
    LET f == GT_FoldTestclasses(cs, DictValues(ss[s].testcases), 1, strict, zf, ju_TestsuiteAggregate)
    IN  IF f.exc # "ok"
        THEN [exc |-> f.exc, cases |-> f.cases, suites |-> ss, acc |-> NoTuple]
        ELSE [exc |-> "ok", cases |-> f.cases,
              suites |-> [ss EXCEPT ![s] = GT_StoreStatus(GT_StoreCounters(@, f.acc), f.acc)],
              acc |-> f.acc]

AddTuples(x, y) ==
    [tests |-> x.tests + y.tests, skipped |-> x.skipped + y.skipped,
     errored |-> x.errored + y.errored, failed |-> x.failed + y.failed,
     passed |-> x.passed + y.passed]

\* base class, TestsuiteSummary.Aggregate as called by super().Aggregate():
\* aggregates every child suite, in order, and accumulates their tuples.
RECURSIVE ju_TestsuiteSummaryAggregate(_, _, _, _, _, _)
ju_TestsuiteSummaryAggregate(cs, ss, ids, i, zf, acc) ==
    IF i > Len(ids)
    THEN [exc |-> "ok", cases |-> cs, suites |-> ss, acc |-> acc]
    ELSE LET r == GT_TestsuiteAggregate(cs, ss, ids[i], TRUE, zf)
         IN  IF r.exc # "ok"
             THEN [exc |-> r.exc, cases |-> r.cases, suites |-> r.suites, acc |-> NoTuple]
             ELSE ju_TestsuiteSummaryAggregate(r.cases, r.suites, ids, i + 1, zf,
                                               AddTuples(acc, r.acc))

\* GoogleTestJUnit.TestsuiteSummary.Aggregate
GT_TestsuiteSummaryAggregate(cs, ss, sm, zf) ==
    LET r == ju_TestsuiteSummaryAggregate(cs, ss, DictValues(sm.testsuites), 1, zf, ZeroTuple)
    IN  IF r.exc # "ok"
        THEN [exc |-> r.exc, cases |-> r.cases, suites |-> r.suites, summary |-> sm, acc |-> NoTuple]
        ELSE [exc |-> "ok", cases |-> r.cases, suites |-> r.suites,
              summary |-> GT_StoreStatus(GT_StoreCounters(sm, r.acc), r.acc), acc |-> r.acc]

----------------------------------------------------------------------------
(* Entity model: constructors and Add* calls on the arena. *)

\* the status / assertion count pairs a Testcase is constructed with
CaseInputs ==
    {<<st, ac>> \in TestcaseStatuses \X AssertionCounts : st # "Unknown" => ac = NoneInt}

NoFile == [kind |-> "nofile"]
NoDoc  == [origin |-> None]
NoSuite == [name |-> <<>>]
Paths  == {"in", "out"}

IsAggregate(op) == op.op \in {"Testsuite.Aggregate", "TestsuiteSummary.Aggregate"}

IsIterate(op) ==
    op.op \in {"Testsuite.Iterate", "Testsuite.IterateTestcases", "TestsuiteSummary.Iterate"}

\* bookkeeping of the call just made: seq is what the caller got out of the
\* generator the call returned (nothing for a call that returns no generator)
CalledWith(op, res, r, seq) ==
    /\ lastOp' = op
    /\ lastResult' = res
    /\ ret' = r
    /\ yielded' = seq
    /\ repeat' = IF (IsAggregate(op) \/ IsIterate(op)) /\ op = lastOp THEN 1 ELSE 0

Called(op, res, r) == CalledWith(op, res, r, <<>>)

\* Testcase(name, classname, duration, status, assertionCount, parent): with a
\* parent the new object is stored under its name in the parent's dictionary.
NewTestcase(name, status, assertionCount, parent) ==
    /\ Len(cases) < MaxCases
    /\ LET id == Len(cases) + 1
       IN  /\ cases' = Append(cases, TestcaseObject(name, ClassnameOf, NoneInt, status, assertionCount, parent))
           /\ suites' = IF parent > 0
                        THEN [suites EXCEPT ![parent].testcases = DictPut(@, name, id)]
                        ELSE suites
           /\ Called(Op("Testcase", id, FALSE), "ok", NoTuple)
    /\ UNCHANGED <<dialect, flatVars, summary, docVars>>

\* Testsuite.__init__, the loop over the testcases argument: state after the
\* loop, and the exception that ended it
RECURSIVE InitTestcases(_, _, _, _, _)
InitTestcases(cs, ss, self, tcs, i) ==
    IF i > Len(tcs)
    THEN [exc |-> "ok", cases |-> cs, suites |-> ss]
    ELSE LET c == tcs[i]
         IN  IF cs[c].parent # 0
             THEN [exc |-> "ValueError", cases |-> cs, suites |-> ss]
             ELSE IF DictHas(ss[self].testcases, cs[c].name)
             THEN [exc |-> "DuplicateTestcaseException", cases |-> cs, suites |-> ss]
             ELSE InitTestcases([cs EXCEPT ![c].parent = self],
                                [ss EXCEPT ![self].testcases = Append(@, <<cs[c].name, c>>)],
                                self, tcs, i + 1)

\* Testsuite(name, hostname, testcases=tcs, parent=...): parentKind says what is
\* passed as parent: nothing, the summary, or a Testsuite (a TypeError).
NewTestsuite(name, parentKind, tcs) ==
    /\ Len(suites) < MaxSuites
    /\ IF parentKind = "Testsuite"
       THEN /\ UNCHANGED modelVars
            /\ Called(Op("Testsuite", 0, FALSE), "TypeError", NoTuple)
       ELSE LET id  == Len(suites) + 1
                par == IF parentKind = "Summary" THEN 1 ELSE 0
                ss0 == Append(suites, TestsuiteObject(name, HostnameOf, NoneInt, "Unknown", par))
                r   == InitTestcases(cases, ss0, id, tcs, 1)
            IN  /\ summary' = IF parentKind = "Summary"
                              THEN [summary EXCEPT !.testsuites = DictPut(@, name, id)]
                              ELSE summary
                /\ cases' = r.cases
                /\ suites' = r.suites
                /\ Called(OpWith("Testsuite", id, tcs), r.exc, NoTuple)
    /\ UNCHANGED <<dialect, flatVars, docVars>>

\* mutant: AddTestcase stores the case without looking for its name
AddTestcase_NoDuplicateCheck(s, c) ==
    /\ IF cases[c].parent # 0
       THEN /\ UNCHANGED modelVars
            /\ Called(OpWith("AddTestcase", s, <<c>>), "ValueError", NoTuple)
       ELSE /\ cases' = [cases EXCEPT ![c].parent = s]
            /\ suites' = [suites EXCEPT ![s].testcases = DictPut(@, cases[c].name, c)]
            /\ UNCHANGED summary
            /\ Called(OpWith("AddTestcase", s, <<c>>), "ok", NoTuple)
    /\ UNCHANGED <<dialect, flatVars, docVars>>

\* mutant: AddTestcase looks for the name before it looks at the parent
AddTestcase_DuplicateCheckFirst(s, c) ==
    /\ IF DictHas(suites[s].testcases, cases[c].name)
       THEN /\ UNCHANGED modelVars
            /\ Called(OpWith("AddTestcase", s, <<c>>), "DuplicateTestcaseException", NoTuple)
       ELSE IF cases[c].parent # 0
       THEN /\ UNCHANGED modelVars
            /\ Called(OpWith("AddTestcase", s, <<c>>), "ValueError", NoTuple)
       ELSE /\ cases' = [cases EXCEPT ![c].parent = s]
            /\ suites' = [suites EXCEPT ![s].testcases = Append(@, <<cases[c].name, c>>)]
            /\ UNCHANGED summary
            /\ Called(OpWith("AddTestcase", s, <<c>>), "ok", NoTuple)
    /\ UNCHANGED <<dialect, flatVars, docVars>>

\* Testsuite.AddTestcase
AddTestcase(s, c) ==
    /\ IF cases[c].parent # 0
       THEN /\ UNCHANGED modelVars
            /\ Called(OpWith("AddTestcase", s, <<c>>), "ValueError", NoTuple)
       ELSE IF DictHas(suites[s].testcases, cases[c].name)
       THEN /\ UNCHANGED modelVars
            /\ Called(OpWith("AddTestcase", s, <<c>>), "DuplicateTestcaseException", NoTuple)
       ELSE /\ cases' = [cases EXCEPT ![c].parent = s]
            /\ suites' = [suites EXCEPT ![s].testcases = Append(@, <<cases[c].name, c>>)]
            /\ UNCHANGED summary
            /\ Called(OpWith("AddTestcase", s, <<c>>), "ok", NoTuple)
    /\ UNCHANGED <<dialect, flatVars, docVars>>

\* TestsuiteSummary.AddTestsuite
AddTestsuite(s) ==
    /\ IF suites[s].parent # 0
       THEN /\ UNCHANGED modelVars
            /\ Called(Op("AddTestsuite", s, FALSE), "ValueError", NoTuple)
       ELSE IF DictHas(summary.testsuites, suites[s].name)
       THEN /\ UNCHANGED modelVars
            /\ Called(Op("AddTestsuite", s, FALSE), "DuplicateTestsuiteException", NoTuple)
       ELSE /\ suites' = [suites EXCEPT ![s].parent = 1]
            /\ summary' = [summary EXCEPT !.testsuites = Append(@, <<suites[s].name, s>>)]
            /\ UNCHANGED cases
            /\ Called(Op("AddTestsuite", s, FALSE), "ok", NoTuple)
    /\ UNCHANGED <<dialect, flatVars, docVars>>

\* suite.Aggregate(strict) on a Testsuite of either dialect
SuiteAggregate(s, strict, zf) ==
    /\ LET r == IF dialect = "JUnit"
                THEN TestsuiteAggregate(cases, suites, s, strict)
                ELSE GT_TestsuiteAggregate(cases, suites, s, strict, zf)
       IN  /\ cases' = r.cases
           /\ suites' = r.suites
           /\ Called(Op("Testsuite.Aggregate", s, strict), r.exc, r.acc)
    /\ UNCHANGED <<dialect, flatVars, summary, docVars>>

\* summary.Aggregate() on the TestsuiteSummary of either dialect
SummaryAggregate(zf) ==
    /\ IF dialect = "JUnit"
       THEN LET r == TestsuiteSummaryAggregate(summary)
            IN  /\ summary' = r.summary
                /\ UNCHANGED <<cases, suites>>
                /\ Called(Op("TestsuiteSummary.Aggregate", 0, FALSE), r.exc, r.acc)
       ELSE LET r == GT_TestsuiteSummaryAggregate(cases, suites, summary, zf)
            IN  /\ summary' = r.summary
                /\ cases' = r.cases
                /\ suites' = r.suites
                /\ Called(Op("TestsuiteSummary.Aggregate", 0, FALSE), r.exc, r.acc)
    /\ UNCHANGED <<dialect, flatVars, docVars>>

CaseIds  == 1..Len(cases)
SuiteIds == 1..Len(suites)

\* the testcases arguments tried: none, one object, two objects
TestcaseLists ==
    {<<>>} \cup {<<c>> : c \in CaseIds} \cup {<<c, d>> : c \in CaseIds, d \in CaseIds}

\* the nodes whose failed-assertion count can be zero or not: with the generic
\* classes no node records it, with the GoogleTest classes it matters for the
\* nodes Testclass.Aggregate still has to resolve from a nonzero assertion count
ZeroFailedSets ==
    IF dialect = "JUnit"
    THEN {{}}
    ELSE SUBSET {c \in CaseIds : cases[c].status = "Unknown" /\ cases[c].assertionCount > 0}

\* the state every specification starts from, but for the tree and the files
Constructed ==
    /\ xmlDocument = NoDoc
    /\ lastOp = Op("init", 0, FALSE)
    /\ lastResult = "ok"
    /\ ret = NoTuple
    /\ repeat = 0
    /\ phase = 0
    /\ utTree = <<>>
    /\ juSuite = NoSuite
    /\ yielded = <<>>

----------------------------------------------------------------------------
(* Specification of the aggregation: the tree is built beforehand (any tree  *)
(* of at most MaxSuites suites and MaxCases cases, as the constructors build *)
(* it), then Aggregate is called on its suites and on its summary.           *)

CaseNameOf(i)  == <<"a", "b", "c", "d">>[i]
SuiteNameOf(i) == <<"S", "T", "U", "V">>[i]

\* the ids, in increasing order, of the objects whose parent is k
ChildIds(par, k) == SelectSeq([i \in 1..Len(par) |-> i], LAMBDA i : par[i] = k)

\* the tree of nS suites under the summary and of the cases in[i] under suite par[i]
BuiltCases(in, par) ==
    [i \in 1..Len(in) |-> TestcaseObject(CaseNameOf(i), ClassnameOf, NoneInt, in[i][1], in[i][2], par[i])]

BuiltSuites(nS, par) ==
    [k \in 1..nS |->
        [TestsuiteObject(SuiteNameOf(k), HostnameOf, NoneInt, "Unknown", 1)
            EXCEPT !.testcases = [j \in 1..Len(ChildIds(par, k)) |->
                                    <<CaseNameOf(ChildIds(par, k)[j]), ChildIds(par, k)[j]>>]]]

\* suites are numbered in the order in which they get their first case (trees
\* that differ only in the numbering of their suites are the same tree)
FirstFit(par) ==
    \A i \in 1..Len(par) : \A k \in 1..(par[i] - 1) : \E j \in 1..(i - 1) : par[j] = k

BuiltSummary(nS) ==
    [SummaryObject("summary") EXCEPT !.testsuites = [k \in 1..nS |-> <<SuiteNameOf(k), k>>]]

Init ==
    /\ dialect \in {"JUnit", "GoogleTest"}
    /\ \E nS \in 0..MaxSuites, n \in 0..MaxCases :
          \E in \in [1..n -> CaseInputs], par \in [1..n -> 1..nS] :
              /\ FirstFit(par)
              /\ cases = BuiltCases(in, par)
              /\ suites = BuiltSuites(nS, par)
              /\ summary = BuiltSummary(nS)
    /\ disk = [p \in Paths |-> NoFile]
    /\ Constructed

Next ==
    \/ \E s \in SuiteIds, strict \in BOOLEAN, zf \in ZeroFailedSets : SuiteAggregate(s, strict, zf)
    \/ \E zf \in ZeroFailedSets : SummaryAggregate(zf)

Spec == Init /\ [][Next]_vars

----------------------------------------------------------------------------
(* Specification of the entity model: objects are constructed and attached   *)
(* one call at a time.                                                        *)

EntityCaseInputs == {<<"Unknown", NoneInt>>}

InitEntity ==
    /\ dialect = "JUnit"
    /\ cases = <<>>
    /\ suites = <<>>
    /\ summary = SummaryObject("summary")
    /\ disk = [p \in Paths |-> NoFile]
    /\ Constructed

\* the names tried for a new object: the first object of a kind gets the first
\* name (a run that starts with another name is the same run renamed)
NamesToTry(objects, first, names) == IF objects = <<>> THEN {first} ELSE names

NextEntity ==
    \/ \E n \in NamesToTry(cases, "a", CaseNames), in \in EntityCaseInputs, p \in {0} \cup SuiteIds :
          NewTestcase(n, in[1], in[2], p)
    \/ \E n \in NamesToTry(suites, "S", SuiteNames), k \in {"None", "Summary", "Testsuite"},
          tcs \in TestcaseLists :
          NewTestsuite(n, k, tcs)
    \/ \E s \in SuiteIds, c \in CaseIds : AddTestcase(s, c)
    \/ \E s \in SuiteIds : AddTestsuite(s)

SpecEntity == InitEntity /\ [][NextEntity]_vars

----------------------------------------------------------------------------
(* Document protocol: XML element trees and the files they are read from and *)
(* written to. A time attribute is the pair <<microseconds, fractional       *)
(* digits written>>, <<>> when the attribute is absent. Timestamps are not   *)
(* drawn in the inputs (the attribute is optional).                          *)

XmlFile(root) == [kind |-> "xml", root |-> root]
InvalidFile   == [kind |-> "invalid"]

\* the time every element of an input took, in microseconds
InputMicros == 250000

\* float(attrib["time"]) and timedelta(seconds=...): the duration, in microseconds
ParseTime(t) == t[1]

\* f"{duration.total_seconds():.6f}"
FormatTime(us) == <<us, 6>>

\* the status a <testcase> gets from its child element (none: Unknown, then Passed)
ParsedStatus(child) ==
    LET st == IF child = "skipped" THEN "Skipped"
              ELSE IF child = "failure" THEN "Failed"
              ELSE IF child = "error" THEN "Errored"
              ELSE "Unknown"
    IN  IF st = "Unknown" THEN "Passed" ELSE st

\* JUnitDocument._ParseTestcase: attrib["time"] of an element without the
\* attribute is a KeyError
ParseTestcase(st, sid, node) ==
    LET id == Len(st.cases) + 1
    IN  IF node.time = <<>>
        THEN [st EXCEPT !.exc = "KeyError"]
        ELSE [st EXCEPT
                !.cases = Append(@, TestcaseObject(node.name, node.classname, ParseTime(node.time),
                                                   ParsedStatus(node.child), NoneInt, sid)),
                !.suites = [@ EXCEPT ![sid].testcases = DictPut(@, node.name, id)]]

\* JUnitDocument._ParseTestsuite, the loop over the children of the element: a
\* nested <testsuite> is constructed with a Testsuite as parent, a TypeError
RECURSIVE ParseChildren(_, _, _, _)
ParseChildren(st, sid, children, i) ==
    IF i > Len(children) \/ st.exc # "ok"
    THEN st
    ELSE IF children[i].tag = "testsuite"
    THEN [st EXCEPT !.exc = "TypeError"]
    ELSE ParseChildren(ParseTestcase(st, sid, children[i]), sid, children, i + 1)

\* JUnitDocument._ParseTestsuite with the summary as parent: Testsuite(name,
\* **kwargs, parent=parent) lacks the positional argument hostname when the
\* element has no hostname attribute, a TypeError
ParseTestsuite(st, node) ==
    IF node.hostname = None
    THEN [st EXCEPT !.exc = "TypeError"]
    ELSE LET id == Len(st.suites) + 1
             duration == IF node.time = <<>> THEN NoneInt ELSE ParseTime(node.time)
             st1 == [st EXCEPT
                        !.summary = [@ EXCEPT !.testsuites = DictPut(@, node.name, id)],
                        !.suites = Append(@, TestsuiteObject(node.name, node.hostname, duration, "Unknown", 1))]
         IN  ParseChildren(st1, id, node.children, 1)

\* JUnitDocument.Parse, the loop over the <testsuite> children of the root
RECURSIVE ParseTestsuites(_, _, _)
ParseTestsuites(st, elems, i) ==
    IF i > Len(elems) \/ st.exc # "ok"
    THEN st
    ELSE ParseTestsuites(ParseTestsuite(st, elems[i]), elems, i + 1)

IndexIn(seq, x) == CHOOSE i \in 1..Len(seq) : seq[i] = x

\* objects no dictionary refers to any more are freed (nothing else refers to
\* the objects Parse creates); the others keep their order
Collect(cs, ss, sm) ==
    LET liveS == SelectSeq([i \in 1..Len(ss) |-> i],
                           LAMBDA s : \E k \in 1..Len(sm.testsuites) : sm.testsuites[k][2] = s)
        liveC == SelectSeq([i \in 1..Len(cs) |-> i],
                           LAMBDA c : \E j \in 1..Len(liveS) :
                                         \E k \in 1..Len(ss[liveS[j]].testcases) :
                                            ss[liveS[j]].testcases[k][2] = c)
    IN  [cases   |-> [i \in 1..Len(liveC) |-> [cs[liveC[i]] EXCEPT !.parent = IndexIn(liveS, @)]],
         suites  |-> [i \in 1..Len(liveS) |->
                        [ss[liveS[i]] EXCEPT !.testcases =
                            [k \in 1..Len(ss[liveS[i]].testcases) |->
                                <<ss[liveS[i]].testcases[k][1],
                                  IndexIn(liveC, ss[liveS[i]].testcases[k][2])>>]]],
         summary |-> [sm EXCEPT !.testsuites =
                        [k \in 1..Len(sm.testsuites) |->
                            <<sm.testsuites[k][1], IndexIn(liveS, sm.testsuites[k][2])>>]]]

\* JUnitDocument.Parse on the element tree root: name and duration of the
\* summary, the suites, then self.Aggregate()
ParseRoot(cs, ss, sm, root) ==
    LET sm0 == [sm EXCEPT !.name = IF root.name # None THEN root.name ELSE "root",
                          !.duration = IF root.time = <<>> THEN NoneInt ELSE ParseTime(root.time)]
        st  == ParseTestsuites([exc |-> "ok", cases |-> cs, suites |-> ss, summary |-> sm0],
                               root.children, 1)
        agg == TestsuiteSummaryAggregate(st.summary)
    IN  IF st.exc # "ok"
        THEN st
        ELSE [st EXCEPT !.summary = agg.summary]

\* JUnitDocument._GenerateTestcase
GenerateTestcase(tc) ==
    [tag |-> "testcase",
     name |-> tc.name,
     classname |-> tc.classname,
     time |-> IF tc.duration # NoneInt THEN FormatTime(tc.duration) ELSE <<>>,
     assertions |-> tc.assertionCount,
     child |-> IF tc.status = "Passed" THEN "none"
               ELSE IF tc.status = "Failed" THEN "failure"
               ELSE IF tc.status = "Skipped" THEN "skipped"
               ELSE "error"]

\* JUnitDocument._GenerateTestsuite
GenerateTestsuite(cs, suite) ==
    [tag |-> "testsuite",
     name |-> suite.name,
     time |-> IF suite.duration # NoneInt THEN FormatTime(suite.duration) ELSE <<>>,
     tests |-> suite.tests,
     failures |-> suite.failed,
     errors |-> suite.errored,
     skipped |-> suite.skipped,
     hostname |-> suite.hostname,
     children |-> [k \in 1..Len(suite.testcases) |-> GenerateTestcase(cs[suite.testcases[k][2]])]]

\* JUnitDocument.Generate: the element tree built from the model
GenerateRoot(cs, ss, sm) ==
    [name |-> sm.name,
     time |-> IF sm.duration # NoneInt THEN FormatTime(sm.duration) ELSE <<>>,
     tests |-> sm.tests,
     failures |-> sm.failed,
     errors |-> sm.errored,
     skipped |-> sm.skipped,
     children |-> [k \in 1..Len(sm.testsuites) |-> GenerateTestsuite(cs, ss[sm.testsuites[k][2]])]]

\* Write(path=None) writes to self._path
TargetOf(path) == IF path = None THEN "in" ELSE path

\* the next position in the call script Read, Parse, Generate, Write: k when
\* the k-th call of the script is made right after the calls before it
\* succeeded on a new document, 5 once the script is left
ScriptStep(k) == IF phase = k - 1 /\ lastResult = "ok" THEN k ELSE 5

\* JUnitDocument.Read
Read ==
    /\ IF disk["in"] = NoFile
       THEN /\ UNCHANGED xmlDocument
            /\ Called(DocOp("Read", None, FALSE, FALSE), "UnittestException", NoTuple)
       ELSE IF disk["in"].kind = "invalid"
       THEN \* XMLSyntaxError: printed, not raised
            /\ UNCHANGED xmlDocument
            /\ Called(DocOp("Read", None, FALSE, FALSE), "ok", NoTuple)
       ELSE /\ xmlDocument' = [origin |-> "Read", root |-> disk["in"].root]
            /\ Called(DocOp("Read", None, FALSE, FALSE), "ok", NoTuple)
    /\ phase' = ScriptStep(1)
    /\ UNCHANGED <<dialect, flatVars, modelVars, disk>>

\* JUnitDocument.Parse
Parse ==
    /\ IF xmlDocument = NoDoc
       THEN /\ UNCHANGED modelVars
            /\ Called(DocOp("Parse", None, FALSE, FALSE), "UnittestException", NoTuple)
       ELSE LET st == ParseRoot(cases, suites, summary, xmlDocument.root)
                gc == Collect(st.cases, st.suites, st.summary)
            IN  /\ cases' = gc.cases
                /\ suites' = gc.suites
                /\ summary' = gc.summary
                /\ Called(DocOp("Parse", None, FALSE, FALSE), st.exc, NoTuple)
    /\ phase' = ScriptStep(2)
    /\ UNCHANGED <<dialect, flatVars, disk, xmlDocument>>

\* mutant: Generate replaces the tree the document holds when overwrite is set
GenerateCall_HonoursOverwrite(cs, ss, sm, doc, overwrite) ==
    IF doc # NoDoc /\ ~overwrite
    THEN [exc |-> "UnittestException", doc |-> doc]
    ELSE [exc |-> "ok", doc |-> [origin |-> "Generate", root |-> GenerateRoot(cs, ss, sm)]]

\* JUnitDocument.Generate(overwrite): the overwrite argument is not read
GenerateCall(cs, ss, sm, doc, overwrite) ==
    IF doc # NoDoc
    THEN [exc |-> "UnittestException", doc |-> doc]
    ELSE [exc |-> "ok", doc |-> [origin |-> "Generate", root |-> GenerateRoot(cs, ss, sm)]]

Generate(overwrite) ==
    /\ LET g == GenerateCall(cases, suites, summary, xmlDocument, overwrite)
       IN  /\ xmlDocument' = g.doc
           /\ Called(DocOp("Generate", None, overwrite, FALSE), g.exc, NoTuple)
    /\ phase' = ScriptStep(3)
    /\ UNCHANGED <<dialect, flatVars, modelVars, disk>>

\* mutant: Write regenerates before it looks whether the target exists
Write_RegenerateFirst(path, overwrite, regenerate) ==
    /\ LET target == TargetOf(path)
           op == DocOp("Write", path, overwrite, regenerate)
           g  == IF regenerate
                 THEN GenerateCall(cases, suites, summary, xmlDocument, TRUE)
                 ELSE [exc |-> "ok", doc |-> xmlDocument]
       IN  IF g.exc # "ok"
           THEN /\ UNCHANGED <<disk, xmlDocument>>
                /\ Called(op, g.exc, NoTuple)
           ELSE IF ~overwrite /\ disk[target] # NoFile
           THEN /\ xmlDocument' = g.doc
                /\ UNCHANGED disk
                /\ Called(op, "UnittestException", NoTuple)
           ELSE IF g.doc = NoDoc
           THEN /\ UNCHANGED <<disk, xmlDocument>>
                /\ Called(op, "UnittestException", NoTuple)
           ELSE /\ xmlDocument' = g.doc
                /\ disk' = [disk EXCEPT ![target] = XmlFile(g.doc.root)]
                /\ Called(op, "ok", NoTuple)
    /\ phase' = ScriptStep(4)
    /\ UNCHANGED <<dialect, flatVars, modelVars>>

\* JUnitDocument.Write(path, overwrite, regenerate)
Write(path, overwrite, regenerate) ==
    /\ LET target == TargetOf(path)
           op == DocOp("Write", path, overwrite, regenerate)
           g  == IF regenerate
                 THEN GenerateCall(cases, suites, summary, xmlDocument, TRUE)
                 ELSE [exc |-> "ok", doc |-> xmlDocument]
       IN  IF ~overwrite /\ disk[target] # NoFile
           THEN /\ UNCHANGED <<disk, xmlDocument>>
                /\ Called(op, "UnittestException", NoTuple)
           ELSE IF g.exc # "ok"
           THEN /\ UNCHANGED <<disk, xmlDocument>>
                /\ Called(op, g.exc, NoTuple)
           ELSE IF g.doc = NoDoc
           THEN /\ UNCHANGED <<disk, xmlDocument>>
                /\ Called(op, "UnittestException", NoTuple)
           ELSE /\ xmlDocument' = g.doc
                /\ disk' = [disk EXCEPT ![target] = XmlFile(g.doc.root)]
                /\ Called(op, "ok", NoTuple)
    /\ phase' = ScriptStep(4)
    /\ UNCHANGED <<dialect, flatVars, modelVars>>

----------------------------------------------------------------------------
(* Specification of the document protocol: a JUnitDocument is constructed on *)
(* the path "in", which holds a JUnit XML file, a file the parser rejects or  *)
(* nothing; then Read, Parse, Generate and Write are called in any order.     *)
(* The input files have at most MaxSuites <testsuite> and MaxCases <testcase> *)
(* elements and differ from the plain file (distinct names, hostnames, all    *)
(* cases passed, times with six digits) in one respect at a time.             *)

ChildKinds == {"none", "skipped", "failure", "error"}
TimeFormats == {"six", "short", "bare"}

InputTime(fmt) == IF fmt = "short" THEN <<InputMicros, 2>> ELSE <<InputMicros, 6>>

CaseElement(i, kinds, dup, fmt) ==
    [tag |-> "testcase",
     name |-> IF dup THEN CaseNameOf(1) ELSE CaseNameOf(i),
     classname |-> ClassnameOf,
     time |-> InputTime(fmt),
     assertions |-> NoneInt,
     child |-> kinds[i]]

NestedSuiteElement == [tag |-> "testsuite", name |-> "N"]

NumKind(ids, kinds, kind) == Cardinality({j \in 1..Len(ids) : kinds[ids[j]] = kind})

SuiteElement(k, par, kinds, host, nest, dup, fmt) ==
    LET ids == ChildIds(par, k)
    IN  [tag |-> "testsuite",
         name |-> IF dup THEN SuiteNameOf(1) ELSE SuiteNameOf(k),
         time |-> IF fmt = "bare" THEN <<>> ELSE InputTime(fmt),
         tests |-> Len(ids),
         failures |-> NumKind(ids, kinds, "failure"),
         errors |-> NumKind(ids, kinds, "error"),
         skipped |-> NumKind(ids, kinds, "skipped"),
         hostname |-> IF host = k THEN None ELSE HostnameOf,
         children |-> [j \in 1..Len(ids) |-> CaseElement(ids[j], kinds, dup, fmt)]
                      \o (IF nest = k THEN <<NestedSuiteElement>> ELSE <<>>)]

RootElement(nS, par, kinds, host, nest, dup, fmt) ==
    LET all == [i \in 1..Len(par) |-> i]
    IN  [name |-> IF fmt = "bare" THEN None ELSE "r",
         time |-> IF fmt = "bare" THEN <<>> ELSE InputTime(fmt),
         tests |-> Len(par),
         failures |-> NumKind(all, kinds, "failure"),
         errors |-> NumKind(all, kinds, "error"),
         skipped |-> NumKind(all, kinds, "skipped"),
         children |-> [k \in 1..nS |-> SuiteElement(k, par, kinds, host, nest, dup, fmt)]]

\* in how many respects an input differs from the plain file
Deviations(kinds, host, nest, dup, fmt) ==
      (IF \E i \in 1..Len(kinds) : kinds[i] # "none" THEN 1 ELSE 0)
    + (IF host # 0 THEN 1 ELSE 0)
    + (IF nest # 0 THEN 1 ELSE 0)
    + (IF dup THEN 1 ELSE 0)
    + (IF fmt # "six" THEN 1 ELSE 0)

\* the file the path "out" holds when it exists beforehand
ExistingFile == XmlFile(RootElement(0, <<>>, <<>>, 0, 0, FALSE, "six"))

\* the statuses of the cases of a tree built by the constructors
DocCaseInputs == {<<"Passed", NoneInt>>, <<"Unknown", NoneInt>>}

InitDoc ==
    /\ dialect = "JUnit"
    /\ \E out \in {NoFile, ExistingFile} :
          \/ \E nS \in 0..MaxSuites, n \in 0..MaxCases :
                \E par \in [1..n -> 1..nS], kinds \in [1..n -> ChildKinds],
                   host \in 0..nS, nest \in 0..nS, dup \in BOOLEAN, fmt \in TimeFormats :
                    /\ FirstFit(par)
                    /\ Deviations(kinds, host, nest, dup, fmt) <= 1
                    /\ disk = [p \in Paths |->
                                 IF p = "in"
                                 THEN XmlFile(RootElement(nS, par, kinds, host, nest, dup, fmt))
                                 ELSE out]
                    /\ cases = <<>>
                    /\ suites = <<>>
                    /\ summary = SummaryObject("Unprocessed JUnit XML file")
          \/ /\ disk = [p \in Paths |-> IF p = "in" THEN InvalidFile ELSE out]
             /\ cases = <<>>
             /\ suites = <<>>
             /\ summary = SummaryObject("Unprocessed JUnit XML file")
          \/ \E nS \in 0..MaxSuites, n \in 0..MaxCases :
                \E in \in [1..n -> DocCaseInputs], par \in [1..n -> 1..nS] :
                    /\ FirstFit(par)
                    /\ disk = [p \in Paths |-> IF p = "in" THEN NoFile ELSE out]
                    /\ cases = BuiltCases(in, par)
                    /\ suites = BuiltSuites(nS, par)
                    /\ summary = [BuiltSummary(nS) EXCEPT !.name = "Unprocessed JUnit XML file"]
    /\ Constructed

NextDoc ==
    \/ Read
    \/ Parse
    \/ \E overwrite \in BOOLEAN : Generate(overwrite)
    \/ \E path \in {None, "out"}, overwrite \in BOOLEAN, regenerate \in BOOLEAN :
          Write(path, overwrite, regenerate)

SpecDoc == InitDoc /\ [][NextDoc]_vars

----------------------------------------------------------------------------
(* Dialect mapper of the GoogleTest dialect: Testsuite.FromTestsuite and     *)
(* Testsuite.ToTestsuite. A suite or testclass name is the sequence of its   *)
(* dot-separated segments ("pkg.Cls" is <<"pkg", "Cls">>), so joining names   *)
(* with "." is concatenation and split(".") gives one name per segment. The   *)
(* canonical classes (Unittesting.Testsuite, TestsuiteKind) and the base      *)
(* classes of the dialect are not part of the sources at hand; what is        *)
(* marked "base class" follows the design description.                        *)

\* base class: the values of TestsuiteKind
TestsuiteKind ==
    [Root |-> 0, Logical |-> 1, Namespace |-> 2, Package |-> 3, Module |-> 4, Class |-> 5]

\* base class, Unittesting.Testsuite(name, kind, parent=parent): child
\* dictionaries keyed by name, testcases as the sequence of the case names
UtTestsuite(name, kind, parent) ==
    [name |-> name, kind |-> kind, parent |-> parent, testsuites |-> <<>>, testcases |-> <<>>]

\* base class, IterateTestcases: the cases of the subtree of suite n, as pairs
\* <<suite, case name>>: the cases of a suite, then those of its child suites
RECURSIVE IterateTestcases(_, _)
RECURSIVE IterateChildren(_, _, _)
IterateTestcases(t, n) ==
    [k \in 1..Len(t[n].testcases) |-> <<n, t[n].testcases[k]>>]
        \o IterateChildren(t, t[n].testsuites, 1)

IterateChildren(t, kids, i) ==
    IF i > Len(kids)
    THEN <<>>
    ELSE IterateTestcases(t, kids[i][2]) \o IterateChildren(t, kids, i + 1)

\* mutant: the walk up also takes the name of a Logical ancestor
RECURSIVE WalkUp_ThroughLogical(_, _, _)
WalkUp_ThroughLogical(t, ts, classname) ==
    IF ts # 0 /\ t[ts].kind >= TestsuiteKind.Logical
    THEN WalkUp_ThroughLogical(t, t[ts].parent, t[ts].name \o classname)
    ELSE classname

\* FromTestsuite, the while loop: names of the ancestors are put in front as
\* long as there is an ancestor and its kind is above Logical
RECURSIVE WalkUp(_, _, _)
WalkUp(t, ts, classname) ==
    IF ts # 0 /\ t[ts].kind > TestsuiteKind.Logical
    THEN WalkUp(t, t[ts].parent, t[ts].name \o classname)
    ELSE classname

\* FromTestsuite: the classname of a case of suite s
FlatClassname(t, s) == WalkUp(t, t[s].parent, t[s].name)

\* FromTestsuite, one pass of the loop over the cases; base class: AddTestcase
\* of a testclass raises DuplicateTestcaseException for a name it holds
FlattenCase(acc, classname, c) ==
    IF DictHas(acc.testclasses, classname)
    THEN LET k == CHOOSE i \in 1..Len(acc.testclasses) : acc.testclasses[i][1] = classname
         IN  IF \E m \in 1..Len(acc.testclasses[k][2]) : acc.testclasses[k][2][m] = c
             THEN [acc EXCEPT !.exc = "DuplicateTestcaseException"]
             ELSE [acc EXCEPT !.testclasses[k][2] = Append(@, c)]
    ELSE [acc EXCEPT !.testclasses = Append(@, <<classname, <<c>>>>)]

RECURSIVE FlattenCases(_, _, _, _)
FlattenCases(t, tcs, i, acc) ==
    IF i > Len(tcs) \/ acc.exc # "ok"
    THEN acc
    ELSE FlattenCases(t, tcs, i + 1, FlattenCase(acc, FlatClassname(t, tcs[i][1]), tcs[i][2]))

\* Testsuite.FromTestsuite(testsuite) on suite n of the canonical tree t: the
\* exception raised, or the flattened suite (testclasses: <<classname, cases>>)
FromTestsuite(t, n) ==
    FlattenCases(t, IterateTestcases(t, n), 1,
                 [exc |-> "ok", name |-> t[n].name, testclasses |-> <<>>])

\* ToTestsuite, the loop over the elements of the class path: the tree and the
\* suite reached after element i
RECURSIVE WalkDown(_, _, _, _)
WalkDown(t, suite, classpath, i) ==
    IF i > Len(classpath)
    THEN [tree |-> t, suite |-> suite]
    ELSE LET element == <<classpath[i]>>
         IN  IF DictHas(t[suite].testsuites, element)
             THEN WalkDown(t, DictGet(t[suite].testsuites, element), classpath, i + 1)
             ELSE LET id == Len(t) + 1
                      t1 == Append([t EXCEPT ![suite].testsuites = Append(@, <<element, id>>)],
                                   UtTestsuite(element, TestsuiteKind.Package, suite))
                  IN  WalkDown(t1, id, classpath, i + 1)

\* base class, AddTestcases of a canonical suite: the exception raised and the
\* cases the suite holds afterwards
RECURSIVE UtAddTestcases(_, _, _)
UtAddTestcases(held, names, i) ==
    IF i > Len(names)
    THEN [exc |-> "ok", testcases |-> held]
    ELSE IF \E m \in 1..Len(held) : held[m] = names[i]
    THEN [exc |-> "DuplicateTestcaseException", testcases |-> held]
    ELSE UtAddTestcases(Append(held, names[i]), names, i + 1)

\* mutant: the parent is retagged when it is the root
UnflattenClass_RetagRoot(acc, testclass) ==
    LET w  == WalkDown(acc.tree, 1, testclass[1], 1)
        t1 == [w.tree EXCEPT ![w.suite].kind = TestsuiteKind.Class]
        t2 == IF t1[w.suite].parent = 1
              THEN [t1 EXCEPT ![t1[w.suite].parent].kind = TestsuiteKind.Module]
              ELSE t1
        a  == UtAddTestcases(t2[w.suite].testcases, testclass[2], 1)
    IN  [exc |-> a.exc, tree |-> [t2 EXCEPT ![w.suite].testcases = a.testcases]]

\* ToTestsuite, one pass of the loop over the testclasses
UnflattenClass(acc, testclass) ==
    LET w  == WalkDown(acc.tree, 1, testclass[1], 1)
        t1 == [w.tree EXCEPT ![w.suite].kind = TestsuiteKind.Class]
        t2 == IF t1[w.suite].parent # 1
              THEN [t1 EXCEPT ![t1[w.suite].parent].kind = TestsuiteKind.Module]
              ELSE t1
        a  == UtAddTestcases(t2[w.suite].testcases, testclass[2], 1)
    IN  [exc |-> a.exc, tree |-> [t2 EXCEPT ![w.suite].testcases = a.testcases]]

RECURSIVE UnflattenClasses(_, _, _)
UnflattenClasses(testclasses, i, acc) ==
    IF i > Len(testclasses) \/ acc.exc # "ok"
    THEN acc
    ELSE UnflattenClasses(testclasses, i + 1, UnflattenClass(acc, testclasses[i]))

\* Testsuite.ToTestsuite(): the exception raised, or the canonical tree
ToTestsuite(j) ==
    UnflattenClasses(j.testclasses, 1,
                     [exc |-> "ok", tree |-> <<UtTestsuite(j.name, TestsuiteKind.Logical, 0)>>])

\* call of FromTestsuite on suite n of the canonical tree at hand
Flatten(n) ==
    /\ utTree # <<>>
    /\ LET r == FromTestsuite(utTree, n)
       IN  /\ juSuite' = IF r.exc = "ok"
                         THEN [name |-> r.name, testclasses |-> r.testclasses]
                         ELSE juSuite
           /\ Called(Op("FromTestsuite", n, FALSE), r.exc, NoTuple)
    /\ UNCHANGED <<dialect, utTree, modelVars, docVars>>

\* call of ToTestsuite on the flattened suite at hand
Unflatten ==
    /\ juSuite # NoSuite
    /\ LET r == ToTestsuite(juSuite)
       IN  /\ utTree' = IF r.exc = "ok" THEN r.tree ELSE utTree
           /\ Called(Op("ToTestsuite", 0, FALSE), r.exc, NoTuple)
    /\ UNCHANGED <<dialect, juSuite, modelVars, docVars>>

----------------------------------------------------------------------------
(* Specification of the dialect mapper: a canonical tree of at most MaxNodes *)
(* suites below its root and MaxCases cases, or a flattened suite of at most  *)
(* MaxSuites testclasses, is given; then FromTestsuite and ToTestsuite are    *)
(* called on what is at hand, in any order.                                   *)

MaxNodes == 3      \* suites below the root of a canonical tree

Segments   == {"p", "q"}
ClassPaths == {<<"p">>, <<"q">>, <<"p", "q">>}
CaseLists  == {<<>>, <<"a">>, <<"a", "b">>}

\* the canonical tree of k suites below the root "r": suite i has parent
\* par[i] and name nm[i], suite logicalAt (if any) is of kind Logical like the
\* root, case m is named cname[m] and is held by suite loc[m]
BuiltTree(k, par, nm, logicalAt, loc, cname) ==
    [i \in 1..(k + 1) |->
        [name |-> IF i = 1 THEN <<"r">> ELSE <<nm[i]>>,
         kind |-> IF i = 1 \/ i = logicalAt
                  THEN TestsuiteKind.Logical
                  ELSE TestsuiteKind.Package,
         parent |-> IF i = 1 THEN 0 ELSE par[i],
         testsuites |-> LET kids == SelectSeq([x \in 1..(k + 1) |-> x],
                                              LAMBDA x : x > 1 /\ par[x] = i)
                        IN  [x \in 1..Len(kids) |-> <<<<nm[kids[x]]>>, kids[x]>>],
         testcases |-> LET held == SelectSeq([m \in 1..Len(loc) |-> m], LAMBDA m : loc[m] = i)
                       IN  [x \in 1..Len(held) |-> cname[held[x]]]]]

\* siblings have different names; cases are listed suite by suite; the first
\* suite and the first case get the first name (other trees are these renamed)
WellBuilt(k, par, nm, loc, cname) ==
    /\ \A i \in 2..(k + 1) : par[i] < i
    /\ k > 0 => nm[2] = "p"
    /\ Len(cname) > 0 => cname[1] = "a"
    /\ \A i \in 2..(k + 1) : \A h \in 2..(k + 1) :
          (i # h /\ par[i] = par[h]) => nm[i] # nm[h]
    /\ \A m \in 1..Len(loc) : \A x \in 1..Len(loc) :
          /\ (m < x) => loc[m] <= loc[x]
          /\ (m # x /\ loc[m] = loc[x]) => cname[m] # cname[x]

InitFlatten ==
    /\ dialect = "GoogleTest"
    /\ cases = <<>>
    /\ suites = <<>>
    /\ summary = SummaryObject("summary")
    /\ disk = [p \in Paths |-> NoFile]
    /\ xmlDocument = NoDoc
    /\ lastOp = Op("init", 0, FALSE)
    /\ lastResult = "ok"
    /\ ret = NoTuple
    /\ repeat = 0
    /\ phase = 0
    /\ yielded = <<>>
    /\ \/ /\ juSuite = NoSuite
          /\ \E k \in 0..MaxNodes, n \in 0..MaxCases :
                \E par \in [2..(k + 1) -> 1..(k + 1)], nm \in [2..(k + 1) -> Segments],
                   logicalAt \in {0} \cup 2..(k + 1),
                   loc \in [1..n -> 1..(k + 1)], cname \in [1..n -> CaseNames] :
                    /\ WellBuilt(k, par, nm, loc, cname)
                    /\ utTree = BuiltTree(k, par, nm, logicalAt, loc, cname)
       \/ /\ utTree = <<>>
          /\ \E m \in 0..MaxSuites :
                \E cn \in [1..m -> ClassPaths], cl \in [1..m -> CaseLists] :
                    /\ \A x \in 1..m : \A y \in 1..m : x # y => cn[x] # cn[y]
                    /\ juSuite = [name |-> <<"r">>,
                                  testclasses |-> [x \in 1..m |-> <<cn[x], cl[x]>>]]

NextFlatten ==
    \/ \E n \in 1..Len(utTree) : Flatten(n)
    \/ Unflatten

SpecFlatten == InitFlatten /\ [][NextFlatten]_vars

----------------------------------------------------------------------------
(* Properties of the aggregation (specification Spec). *)

AggregateReturned == IsAggregate(lastOp) /\ lastResult = "ok"

SuiteAggregateReturned == lastOp.op = "Testsuite.Aggregate" /\ lastResult = "ok"

SummaryAggregateReturned == lastOp.op = "TestsuiteSummary.Aggregate" /\ lastResult = "ok"

\* the node the last Aggregate call was made on
Aggregated == IF lastOp.op = "Testsuite.Aggregate" THEN suites[lastOp.node] ELSE summary

CountersOf(node) ==
    [tests |-> node.tests, skipped |-> node.skipped, errored |-> node.errored,
     failed |-> node.failed, passed |-> node.passed]

AddsUp(t) == t.tests = t.skipped + t.errored + t.failed + t.passed

\* the cases of suite s, in dictionary order
CasesOf(s) == [i \in 1..Len(suites[s].testcases) |-> cases[suites[s].testcases[i][2]]]

NumWithStatus(s, st) == Cardinality({i \in 1..Len(CasesOf(s)) : CasesOf(s)[i].status = st})

\* Testsuite.TestcaseCount
TestsuiteTestcaseCount(s) == Len(suites[s].testcases)

RECURSIVE SumSeq(_)
SumSeq(seq) == IF seq = <<>> THEN 0 ELSE Head(seq) + SumSeq(Tail(seq))

\* TestsuiteSummary.TestcaseCount
SummaryTestcaseCount ==
    SumSeq([i \in 1..Len(summary.testsuites) |-> TestsuiteTestcaseCount(summary.testsuites[i][2])])

\* the sum of the counters of the child suites of the summary
RECURSIVE SumTuples(_)
SumTuples(seq) == IF seq = <<>> THEN ZeroTuple ELSE AddTuples(Head(seq), SumTuples(Tail(seq)))

ChildSuiteCounters ==
    [i \in 1..Len(summary.testsuites) |-> CountersOf(suites[summary.testsuites[i][2]])]

\* C1: whenever Aggregate returns on a Testsuite or a TestsuiteSummary, of the
\* generic or of the GoogleTest classes, the tuple it returns and the counters it
\* stored in the node are the same and satisfy
\* tests = skipped + errored + failed + passed.
C1_CountersAddUp ==
    AggregateReturned =>
        /\ AddsUp(ret)
        /\ CountersOf(Aggregated) = ret

C1_Witness ==
    /\ SuiteAggregateReturned
    /\ dialect = "GoogleTest"
    /\ ret.tests = 2 /\ ret.skipped = 1 /\ ret.failed = 1

\* C2: after Aggregate returns on a TestsuiteSummary, every child suite has been
\* aggregated and each counter of the summary is the sum of that counter over its
\* child suites, so that the summary's tests equals its TestcaseCount.
C2_SummarySumsSuites ==
    SummaryAggregateReturned =>
        /\ \A s \in SeqRange(DictValues(summary.testsuites)) :
              suites[s].tests = TestsuiteTestcaseCount(s)
        /\ CountersOf(summary) = SumTuples(ChildSuiteCounters)
        /\ summary.tests   = SummaryTestcaseCount

\* C3: after the aggregation of a summary completes without raising, no node of
\* the tree has status Unknown: not the summary, no suite and no case.
C3_NoUnknownAfterAggregate ==
    SummaryAggregateReturned =>
        /\ summary.status # "Unknown"
        /\ \A s \in SeqRange(DictValues(summary.testsuites)) :
              /\ suites[s].status # "Unknown"
              /\ \A i \in 1..Len(CasesOf(s)) : CasesOf(s)[i].status # "Unknown"

\* C4: an Aggregate call that repeats the call made just before it (same node,
\* same strictness, nothing in between) ends the same way, returns the same
\* tuple and leaves every counter and every status of the tree as it was.
C4_Idempotent ==
    [][ (IsAggregate(lastOp) /\ lastOp' = lastOp) =>
            /\ lastResult' = lastResult
            /\ ret' = ret
            /\ cases' = cases
            /\ suites' = suites
            /\ summary' = summary ]_vars

C4_Witness ==
    /\ repeat = 1
    /\ SuiteAggregateReturned
    /\ ret.tests = 2 /\ ret.passed = 1 /\ ret.skipped = 1

\* the rules of the status precedence, in order
StatusRules(t) ==
    << <<t.errored > 0, "Errored">>,
       <<t.failed > 0, "Failed">>,
       <<t.tests = 0, "Empty">>,
       <<t.tests - t.skipped = t.passed, "Passed">>,
       <<t.tests = t.skipped, "Skipped">>,
       <<TRUE, "Unknown">> >>

FirstMatch(rules) ==
    rules[CHOOSE i \in 1..Len(rules) : rules[i][1] /\ \A j \in 1..(i - 1) : ~rules[j][1]][2]

\* C5: the status Aggregate assigns to a suite or summary is the one of the first
\* rule that matches the aggregated counts, in the order errored > 0, failed > 0,
\* tests = 0, tests - skipped = passed, tests = skipped, otherwise Unknown; a
\* suite without cases gets Empty.
C5_StatusPrecedence ==
    AggregateReturned =>
        /\ Aggregated.status = FirstMatch(StatusRules(ret))
        /\ (lastOp.op = "Testsuite.Aggregate" /\ Len(Aggregated.testcases) = 0
               => Aggregated.status = "Empty")

C5_Witness ==
    /\ SuiteAggregateReturned
    /\ ret.errored = 1 /\ ret.failed = 1
    /\ Aggregated.status = "Errored"

\* C6: after Aggregate, a suite with at least one case whose cases are all
\* Skipped has status Skipped.
C6_AllSkippedIsSkipped ==
    (SuiteAggregateReturned /\ ret.tests > 0 /\ ret.tests = ret.skipped)
        => Aggregated.status = "Skipped"

\* C7: after Aggregate returns on a Testsuite of the generic classes, tests is
\* the number of its direct cases and skipped, errored, failed and passed are
\* the numbers of its direct cases of that (resolved) status.
C7_CountsPerStatus ==
    (SuiteAggregateReturned /\ dialect = "JUnit") =>
        /\ Aggregated.tests   = Len(Aggregated.testcases)
        /\ Aggregated.skipped = NumWithStatus(lastOp.node, "Skipped")
        /\ Aggregated.errored = NumWithStatus(lastOp.node, "Errored")
        /\ Aggregated.failed  = NumWithStatus(lastOp.node, "Failed")
        /\ Aggregated.passed  = NumWithStatus(lastOp.node, "Passed")

\* one failed and one passed case: tests=2, failed=1, passed=1, status Failed
C7_Witness ==
    /\ SuiteAggregateReturned /\ dialect = "JUnit"
    /\ Len(CasesOf(lastOp.node)) = 2
    /\ CasesOf(lastOp.node)[1].status = "Failed"
    /\ CasesOf(lastOp.node)[2].status = "Passed"
    /\ CountersOf(Aggregated) =
          [tests |-> 2, skipped |-> 0, errored |-> 0, failed |-> 1, passed |-> 1]
    /\ Aggregated.status = "Failed"

----------------------------------------------------------------------------
(* Properties of the document protocol (specification SpecDoc). *)

\* the file at "in" is an XML file the schema accepts
WellFormedInput == disk["in"].kind = "xml"

SameCaseAttributes(w, x) ==
    /\ w.tag = "testcase" /\ x.tag = "testcase"
    /\ w.name = x.name
    /\ w.classname = x.classname
    /\ w.time = x.time
    /\ w.child = x.child

SameCounterAttributes(w, x) ==
    /\ w.tests = x.tests
    /\ w.failures = x.failures
    /\ w.errors = x.errors
    /\ w.skipped = x.skipped
    /\ w.time = x.time

SameSuiteAttributes(w, x) ==
    /\ SameCounterAttributes(w, x)
    /\ Len(w.children) = Len(x.children)
    /\ \A j \in 1..Len(w.children) : SameCaseAttributes(w.children[j], x.children[j])

SameDocument(w, x) ==
    /\ SameCounterAttributes(w, x)
    /\ Len(w.children) = Len(x.children)
    /\ \A k \in 1..Len(w.children) : SameSuiteAttributes(w.children[k], x.children[k])

\* C8: on a new document whose file is a well-formed input, each call of the
\* sequence Read, Parse, Generate, Write completes, and the file written (to
\* another path) then has the suite-level attributes tests, failures, errors,
\* skipped and time and the case-level name, classname, time and child element
\* of the input.
C8_RoundTrip ==
    (phase \in 1..4 /\ WellFormedInput) =>
        /\ lastResult = "ok"
        /\ (phase = 4 /\ lastOp.path = "out") =>
               /\ disk["out"].kind = "xml"
               /\ SameDocument(disk["out"].root, disk["in"].root)

\* C9: Generate called after a successful Read and a successful Parse
\* succeeds, and the tree the document then holds is the one built from the
\* model, not the one Read loaded.
C9_GenerateFromConverted ==
    (phase = 3) =>
        /\ lastResult = "ok"
        /\ xmlDocument = [origin |-> "Generate", root |-> GenerateRoot(cases, suites, summary)]

\* C10: a call Write(path, overwrite, regenerate=True) whose target does not
\* exist or whose overwrite is True succeeds, whatever tree the document
\* holds, and the file it writes is the tree built from the model.
C10_WriteRegenerates ==
    [][ ( /\ lastOp'.op = "Write"
          /\ lastOp'.regenerate
          /\ (lastOp'.overwrite \/ disk[TargetOf(lastOp'.path)] = NoFile) )
        => ( /\ lastResult' = "ok"
             /\ disk'[TargetOf(lastOp'.path)] = XmlFile(GenerateRoot(cases, suites, summary)) ) ]_vars

\* the tree the document holds was loaded by Read: Generate only ever fills an
\* empty _xmlDocument and nothing empties it again, so the tree is the one of
\* Read exactly when a Read of this document has loaded a file
ReadSucceeded == xmlDocument.origin = "Read"

\* C11: a Parse call on a document on which no Read has succeeded raises the
\* state error (UnittestException) and leaves cases, suites and summary as
\* they were; this includes a document on which only Generate has run.
C11_ParseNeedsRead ==
    [][ (lastOp'.op = "Parse" /\ ~ReadSucceeded)
        => (lastResult' = "UnittestException" /\ modelVars' = modelVars) ]_vars

\* C12: a call Write(regenerate=False) on a document on which only Read and
\* Parse have been called so far (Generate never) raises the state error and
\* leaves every file as it was.
C12_WriteNeedsGenerate ==
    [][ (phase \in 0..2 /\ lastOp'.op = "Write" /\ ~lastOp'.regenerate)
        => (lastResult' = "UnittestException" /\ disk' = disk) ]_vars

\* C13: a Generate call on a document that holds a tree raises and leaves the
\* tree, the cases, the suites and the summary as they were, whatever its
\* overwrite argument; so the second of two consecutive Generate calls raises.
C13_GenerateOnHeldTreeRaises ==
    [][ /\ (lastOp'.op = "Generate" /\ xmlDocument # NoDoc)
            => ( /\ lastResult' = "UnittestException"
                 /\ xmlDocument' = xmlDocument
                 /\ modelVars' = modelVars )
        /\ (lastOp'.op = "Generate" /\ lastOp.op = "Generate")
            => lastResult' = "UnittestException" ]_vars

\* a Generate(overwrite=True) call has raised on the tree an earlier Generate built
C13_Witness ==
    /\ lastOp.op = "Generate"
    /\ lastOp.overwrite
    /\ lastResult = "UnittestException"
    /\ xmlDocument.origin = "Generate"
    /\ Len(xmlDocument.root.children) > 0

\* C14: a call Write(overwrite=False) whose target exists raises and leaves the
\* files, the tree the document holds, the cases, the suites and the summary
\* as they were, with regenerate=True as well.
C14_WriteKeepsExistingFile ==
    [][ (lastOp'.op = "Write" /\ ~lastOp'.overwrite /\ disk[TargetOf(lastOp'.path)] # NoFile)
        => ( /\ lastResult' = "UnittestException"
             /\ disk' = disk
             /\ xmlDocument' = xmlDocument
             /\ modelVars' = modelVars ) ]_vars

\* Write(regenerate=True, overwrite=False) has raised for an existing target
\* on a document that holds no tree (Generate would have built one)
C14_Witness ==
    /\ lastOp.op = "Write"
    /\ lastOp.regenerate
    /\ ~lastOp.overwrite
    /\ lastResult = "UnittestException"
    /\ disk[TargetOf(lastOp.path)] # NoFile
    /\ xmlDocument = NoDoc
    /\ Len(summary.testsuites) > 0

----------------------------------------------------------------------------
(* Properties of the entity model (specification SpecEntity). *)

InTestcases(s, c) == \E k \in 1..Len(suites[s].testcases) : suites[s].testcases[k][2] = c
InTestsuites(s)   == \E k \in 1..Len(summary.testsuites) : summary.testsuites[k][2] = s

\* C15: a case is in the child map of a suite exactly when its parent
\* reference is that suite, and a suite is in the child map of the summary
\* exactly when its parent reference is the summary; so no node is in the
\* child maps of two parents.
C15_ParentChildExclusive ==
    /\ \A c \in CaseIds : \A s \in SuiteIds : InTestcases(s, c) <=> cases[c].parent = s
    /\ \A s \in SuiteIds : InTestsuites(s) <=> suites[s].parent = 1

\* C16: a constructor call with parent= that returns did not find its name in
\* the child map of that parent (with the name present it fails with the
\* duplicate error), and no constructor call changes an entry a child map has.
C16_ConstructorRejectsDuplicate ==
    [][ /\ (lastOp'.op = "Testcase" /\ lastResult' = "ok" /\ cases'[lastOp'.node].parent > 0)
            => ~DictHas(suites[cases'[lastOp'.node].parent].testcases, cases'[lastOp'.node].name)
        /\ (lastOp'.op = "Testsuite" /\ lastOp'.node > 0 /\ lastResult' = "ok"
               /\ suites'[lastOp'.node].parent = 1)
            => ~DictHas(summary.testsuites, suites'[lastOp'.node].name)
        /\ (lastOp'.op \in {"Testcase", "Testsuite"})
            => /\ \A s \in SuiteIds : \A k \in 1..Len(suites[s].testcases) :
                     suites'[s].testcases[k] = suites[s].testcases[k]
               /\ \A k \in 1..Len(summary.testsuites) :
                     summary'.testsuites[k] = summary.testsuites[k] ]_vars

\* C17 as stated: AddTestcase on a suite that holds a case of that name raises
\* DuplicateTestcaseException, AddTestsuite on a summary that holds a suite of
\* that name raises DuplicateTestsuiteException, and the child map and the
\* parent reference of the rejected node stay as they were.
C17_DuplicateAddRaises ==
    [][ /\ (lastOp'.op = "AddTestcase"
               /\ DictHas(suites[lastOp'.node].testcases, cases[lastOp'.args[1]].name))
            => ( /\ lastResult' = "DuplicateTestcaseException"
                 /\ suites'[lastOp'.node].testcases = suites[lastOp'.node].testcases
                 /\ cases'[lastOp'.args[1]].parent = cases[lastOp'.args[1]].parent )
        /\ (lastOp'.op = "AddTestsuite" /\ DictHas(summary.testsuites, suites[lastOp'.node].name))
            => ( /\ lastResult' = "DuplicateTestsuiteException"
                 /\ summary'.testsuites = summary.testsuites
                 /\ suites'[lastOp'.node].parent = suites[lastOp'.node].parent ) ]_vars

\* C17, amended: the same for a node that has no parent yet (a node that has a
\* parent is rejected with the re-parenting error before its name is looked up).
C17_DuplicateAddOfFreeNodeRaises ==
    [][ /\ (lastOp'.op = "AddTestcase"
               /\ cases[lastOp'.args[1]].parent = 0
               /\ DictHas(suites[lastOp'.node].testcases, cases[lastOp'.args[1]].name))
            => ( /\ lastResult' = "DuplicateTestcaseException"
                 /\ suites'[lastOp'.node].testcases = suites[lastOp'.node].testcases
                 /\ cases'[lastOp'.args[1]].parent = 0 )
        /\ (lastOp'.op = "AddTestsuite"
               /\ suites[lastOp'.node].parent = 0
               /\ DictHas(summary.testsuites, suites[lastOp'.node].name))
            => ( /\ lastResult' = "DuplicateTestsuiteException"
                 /\ summary'.testsuites = summary.testsuites
                 /\ suites'[lastOp'.node].parent = 0 ) ]_vars

\* AddTestcase has rejected a case without parent whose name the suite holds
C17_Witness ==
    /\ lastOp.op = "AddTestcase"
    /\ lastResult = "DuplicateTestcaseException"
    /\ cases[lastOp.args[1]].parent = 0
    /\ DictHas(suites[lastOp.node].testcases, cases[lastOp.args[1]].name)
    /\ ~InTestcases(lastOp.node, lastOp.args[1])

\* the first object of the testcases argument that had a parent, 0 if none had
FirstParented(tcs) ==
    IF \E i \in 1..Len(tcs) : cases[tcs[i]].parent # 0
    THEN CHOOSE i \in 1..Len(tcs) :
            /\ cases[tcs[i]].parent # 0
            /\ \A j \in 1..(i - 1) : cases[tcs[j]].parent = 0
    ELSE 0

\* the objects before position i of the testcases argument are different
\* objects with different names
DistinctBefore(tcs, i) ==
    \A j \in 1..(i - 1) : \A k \in 1..(i - 1) :
        j # k => (tcs[j] # tcs[k] /\ cases[tcs[j]].name # cases[tcs[k]].name)

----------------------------------------------------------------------------
(* Properties of the dialect mapper (specification SpecFlatten). *)

SeqToSet(seq) == {seq[i] : i \in 1..Len(seq)}

\* the testclass names of a flattened suite, each with the set of its case names
ClassMap(j) == {<<j.testclasses[i][1], SeqToSet(j.testclasses[i][2])>> : i \in 1..Len(j.testclasses)}

NoEmptyTestclass(j) == \A i \in 1..Len(j.testclasses) : j.testclasses[i][2] # <<>>

\* the names of the suites from below the root down to suite s, joined with "."
RECURSIVE ChainName(_, _)
ChainName(t, s) == IF t[s].parent = 0 THEN <<>> ELSE ChainName(t, t[s].parent) \o t[s].name

\* every case of the tree t is held by a suite whose chain of names is the
\* name of a testclass of j that holds the case, and the other way round
SitsUnderClassnames(t, j) ==
    /\ \A i \in 1..Len(j.testclasses) : \A c \in SeqToSet(j.testclasses[i][2]) :
          \E s \in 1..Len(t) :
             c \in SeqToSet(t[s].testcases) /\ ChainName(t, s) = j.testclasses[i][1]
    /\ \A s \in 1..Len(t) : \A c \in SeqToSet(t[s].testcases) :
          \E i \in 1..Len(j.testclasses) :
             c \in SeqToSet(j.testclasses[i][2]) /\ ChainName(t, s) = j.testclasses[i][1]

RoundTripOfFlattened ==
    /\ lastOp.op = "ToTestsuite" /\ lastResult = "ok"
    /\ lastOp'.op = "FromTestsuite" /\ lastOp'.node = 1

RoundTripOfCanonical ==
    /\ lastOp.op = "FromTestsuite" /\ lastResult = "ok"
    /\ lastOp'.op = "ToTestsuite"

\* C19 as stated: FromTestsuite of the tree ToTestsuite made of a flattened
\* suite j gives the testclass names of j with the case names of j under each,
\* for every j; and the cases of the tree ToTestsuite makes of what
\* FromTestsuite returned sit under the suites whose names, joined with ".",
\* are their classnames.
C19_ClassnameRoundTrip ==
    [][ /\ RoundTripOfFlattened
            => (lastResult' = "ok" /\ ClassMap(juSuite') = ClassMap(juSuite))
        /\ RoundTripOfCanonical
            => (lastResult' = "ok" /\ SitsUnderClassnames(utTree', juSuite)) ]_vars

\* C19, amended: the same, for every flattened suite j whose testclasses all
\* hold at least one case (a testclass without cases is not in the result).
C19_ClassnameRoundTripOfCases ==
    [][ /\ (RoundTripOfFlattened /\ NoEmptyTestclass(juSuite))
            => (lastResult' = "ok" /\ ClassMap(juSuite') = ClassMap(juSuite))
        /\ RoundTripOfCanonical
            => (lastResult' = "ok" /\ SitsUnderClassnames(utTree', juSuite)) ]_vars

\* FromTestsuite has returned the two testclasses "p" and "p.q", with their
\* cases, of the tree that ToTestsuite made of them
C19_Witness ==
    /\ lastOp.op = "FromTestsuite"
    /\ lastOp.node = 1
    /\ lastResult = "ok"
    /\ Len(utTree) = 3
    /\ utTree[1].kind = TestsuiteKind.Logical
    /\ utTree[2].kind = TestsuiteKind.Module
    /\ utTree[3].kind = TestsuiteKind.Class
    /\ ClassMap(juSuite) = {<<<<"p">>, {"a"}>>, <<<<"p", "q">>, {"a", "b"}>>}

NumFlatCases(j) == SumSeq([i \in 1..Len(j.testclasses) |-> Len(j.testclasses[i][2])])

\* C20: FromTestsuite of a canonical suite returns and holds as many cases as
\* the subtree of that suite, and ToTestsuite of a flattened suite returns a
\* tree of as many cases as the flattened suite holds.
C20_FlattenKeepsCases ==
    [][ /\ (lastOp'.op = "FromTestsuite")
            => ( /\ lastResult' = "ok"
                 /\ NumFlatCases(juSuite') = Len(IterateTestcases(utTree, lastOp'.node)) )
        /\ (lastOp'.op = "ToTestsuite")
            => ( /\ lastResult' = "ok"
                 /\ Len(IterateTestcases(utTree', 1)) = NumFlatCases(juSuite) ) ]_vars

\* TestsuiteSummary.TestsuiteCount
TestsuiteCount == Len(summary.testsuites)

\* the number of <testcase> elements below an element, at every depth
RECURSIVE TestcaseElements(_)
TestcaseElements(elem) ==
    IF elem.tag = "testcase"
    THEN 1
    ELSE IF "children" \in DOMAIN elem
    THEN SumSeq([k \in 1..Len(elem.children) |-> TestcaseElements(elem.children[k])])
    ELSE 0

\* the number of <testcase> elements of a file
TestcaseElementsOfRoot(root) ==
    SumSeq([k \in 1..Len(root.children) |-> TestcaseElements(root.children[k])])

\* the document was constructed with parse=True: Read, then Parse, both completed
ParsedOnConstruction == phase = 2 /\ lastOp.op = "Parse" /\ lastResult = "ok"

\* C21: after Read and Parse on a new document, TestsuiteCount is the number
\* of top-level <testsuite> elements of the input and TestcaseCount is the
\* number of its <testcase> elements at every depth (0 and 0 for an input
\* without <testsuite> elements).
C21_CountsMatchInput ==
    ParsedOnConstruction =>
        /\ TestsuiteCount = Len(disk["in"].root.children)
        /\ SummaryTestcaseCount = TestcaseElementsOfRoot(disk["in"].root)

----------------------------------------------------------------------------
(* Specification of Copy and of the annotations: a tree is built, entries    *)
(* are stored in the annotation dictionaries of its nodes, and nodes are     *)
(* copied; a copy is a new object of the arena.                              *)

MaxCopies == 1      \* objects Copy may add to each arena

AnnotationKey   == "key"
AnnotationValue == "value"

\* Base.__setitem__ on a Testcase: testcase[key] = value
SetItemOfTestcase(c, key, value) ==
    /\ cases' = [cases EXCEPT ![c].dict = DictPut(@, key, value)]
    /\ UNCHANGED <<suites, summary>>
    /\ Called(Op("Testcase.__setitem__", c, FALSE), "ok", NoTuple)
    /\ UNCHANGED <<dialect, flatVars, docVars>>

\* Base.__setitem__ on a Testsuite: testsuite[key] = value
SetItemOfTestsuite(s, key, value) ==
    /\ suites' = [suites EXCEPT ![s].dict = DictPut(@, key, value)]
    /\ UNCHANGED <<cases, summary>>
    /\ Called(Op("Testsuite.__setitem__", s, FALSE), "ok", NoTuple)
    /\ UNCHANGED <<dialect, flatVars, docVars>>

\* Testcase.Copy: self.__class__(name, None, duration, status, assertionCount),
\* the second positional argument is the classname
CopyOfTestcase(tc) ==
    TestcaseObject(tc.name, None, tc.duration, tc.status, tc.assertionCount, 0)

\* Testsuite.Copy: self.__class__(name, hostname, startTime, duration, status),
\* no testcases argument
CopyOfTestsuite(ts) ==
    TestsuiteObject(ts.name, ts.hostname, ts.duration, ts.status, 0)

\* testcase.Copy(): args holds the id of the object returned
CopyTestcase(c) ==
    /\ Len(cases) < MaxCases + MaxCopies
    /\ cases' = Append(cases, CopyOfTestcase(cases[c]))
    /\ UNCHANGED <<suites, summary>>
    /\ Called(OpWith("Testcase.Copy", c, <<Len(cases) + 1>>), "ok", NoTuple)
    /\ UNCHANGED <<dialect, flatVars, docVars>>

\* testsuite.Copy(): args holds the id of the object returned
CopyTestsuite(s) ==
    /\ Len(suites) < MaxSuites + MaxCopies
    /\ suites' = Append(suites, CopyOfTestsuite(suites[s]))
    /\ UNCHANGED <<cases, summary>>
    /\ Called(OpWith("Testsuite.Copy", s, <<Len(suites) + 1>>), "ok", NoTuple)
    /\ UNCHANGED <<dialect, flatVars, docVars>>

\* the statuses and assertion counts of the cases of the tree
CopyCaseInputs == {<<"Passed", 1>>, <<"Unknown", NoneInt>>}

\* every object took InputMicros (duration=timedelta(...) given to the constructor)
Timed(objects) == [i \in 1..Len(objects) |-> [objects[i] EXCEPT !.duration = InputMicros]]

InitCopy ==
    /\ dialect = "JUnit"
    /\ \E nS \in 0..MaxSuites, n \in 0..MaxCases :
          \E in \in [1..n -> CopyCaseInputs], par \in [1..n -> 1..nS] :
              /\ FirstFit(par)
              /\ cases = Timed(BuiltCases(in, par))
              /\ suites = Timed(BuiltSuites(nS, par))
              /\ summary = BuiltSummary(nS)
    /\ disk = [p \in Paths |-> NoFile]
    /\ Constructed

NextCopy ==
    \/ \E c \in CaseIds : SetItemOfTestcase(c, AnnotationKey, AnnotationValue)
    \/ \E s \in SuiteIds : SetItemOfTestsuite(s, AnnotationKey, AnnotationValue)
    \/ \E c \in CaseIds : CopyTestcase(c)
    \/ \E s \in SuiteIds : CopyTestsuite(s)

SpecCopy == InitCopy /\ [][NextCopy]_vars

----------------------------------------------------------------------------
(* Properties of Copy (specification SpecCopy). *)

SameTestcaseFields(n, o) ==
    /\ n.name = o.name
    /\ n.classname = o.classname
    /\ n.duration = o.duration
    /\ n.status = o.status
    /\ n.assertionCount = o.assertionCount

SameTestsuiteFields(n, o) ==
    /\ n.name = o.name
    /\ n.hostname = o.hostname
    /\ n.duration = o.duration
    /\ n.status = o.status

\* C22: Copy returns an unparented clone: a copied Testcase has the name,
\* classname, duration, status and assertion count of the original; a copied
\* Testsuite has the fields of the original and holds copies of all of its
\* cases; the annotation entries of the original are those of the copy; and
\* the objects that existed before the call are unchanged.
C22_CopyIsStructuralClone ==
    [][ /\ lastOp'.op = "Testcase.Copy" =>
              LET o == cases[lastOp'.node]
                  n == cases'[lastOp'.args[1]]
              IN  /\ lastResult' = "ok"
                  /\ n.parent = 0
                  /\ SameTestcaseFields(n, o)
                  /\ n.dict = o.dict
                  /\ SubSeq(cases', 1, Len(cases)) = cases
                  /\ suites' = suites
        /\ lastOp'.op = "Testsuite.Copy" =>
              LET o == suites[lastOp'.node]
                  id == lastOp'.args[1]
                  n == suites'[id]
              IN  /\ lastResult' = "ok"
                  /\ n.parent = 0
                  /\ SameTestsuiteFields(n, o)
                  /\ n.dict = o.dict
                  /\ Len(n.testcases) = Len(o.testcases)
                  /\ \A k \in 1..Len(o.testcases) :
                        /\ n.testcases[k][1] = o.testcases[k][1]
                        /\ n.testcases[k][2] > Len(cases)
                        /\ cases'[n.testcases[k][2]].parent = id
                        /\ SameTestcaseFields(cases'[n.testcases[k][2]], cases[o.testcases[k][2]])
                  /\ SubSeq(suites', 1, Len(suites)) = suites
                  /\ SubSeq(cases', 1, Len(cases)) = cases ]_vars

----------------------------------------------------------------------------
(* Tree Iterator: Testsuite.Iterate, Testsuite.IterateTestcases and          *)
(* TestsuiteSummary.Iterate of the generic JUnit classes. An IterationScheme *)
(* is the set of its flags; "x | y in scheme" is {x, y} \subseteq scheme.    *)
(* A call is modelled together with the caller that takes everything out of  *)
(* the generator: its outcome is the sequence of nodes yielded and the       *)
(* exception that ended the generator ("ok": it was exhausted). A node is    *)
(* <<"suite", id>>, <<"case", id>> or <<"summary", 0>>. The enumeration      *)
(* IterationScheme is not part of the sources at hand; its flags and the     *)
(* value of TestcaseDefault follow the design description.                   *)

\* base class: the flags of IterationScheme the methods read
IterationFlags ==
    {"IncludeSelf", "IncludeTestsuites", "IncludeTestcases", "PreOrder", "PostOrder"}

\* base class: IterationScheme.TestcaseDefault
TestcaseDefault == {"IncludeTestcases", "PreOrder"}

\* an object has the attribute (a slot that was assigned)
HasAttr(object, attr) == attr \in DOMAIN object

SummaryNode == <<"summary", 0>>

\* "for testcase in self._testcases.values(): yield testcase"
YieldTestcases(ts) == [k \in 1..Len(ts.testcases) |-> <<"case", ts.testcases[k][2]>>]

\* Testsuite.Iterate, what is yielded before the loop over the child suites
YieldedBefore(ss, s, scheme) ==
    IF "PreOrder" \in scheme
    THEN (IF {"IncludeSelf", "IncludeTestsuites"} \subseteq scheme THEN <<<<"suite", s>>>> ELSE <<>>)
         \o (IF "IncludeTestcases" \in scheme THEN YieldTestcases(ss[s]) ELSE <<>>)
    ELSE <<>>

\* Testsuite.Iterate, what is yielded after the loop over the child suites
YieldedAfter(ss, s, scheme) ==
    IF "PostOrder" \in scheme
    THEN (IF "IncludeTestcases" \in scheme THEN YieldTestcases(ss[s]) ELSE <<>>)
         \o (IF {"IncludeSelf", "IncludeTestsuites"} \subseteq scheme THEN <<<<"suite", s>>>> ELSE <<>>)
    ELSE <<>>

\* Testsuite.Iterate(scheme). The assert is the first statement the generator
\* runs. The loop reads self._testsuites: a Testsuite has no such attribute
\* (TestsuiteObject), so the generator ends there with AttributeError. The
\* loop over the child suites is written out for an object that has them.
RECURSIVE TestsuiteIterate(_, _, _)
RECURSIVE IterateEach(_, _, _, _)
TestsuiteIterate(ss, s, scheme) ==
    IF {"PreOrder", "PostOrder"} \subseteq scheme
    THEN [exc |-> "AssertionError", seq |-> <<>>]
    ELSE IF ~HasAttr(ss[s], "testsuites")
    THEN [exc |-> "AttributeError", seq |-> YieldedBefore(ss, s, scheme)]
    ELSE LET sub == IterateEach(ss, ss[s].testsuites, 1, scheme \cup {"IncludeSelf"})
         IN  IF sub.exc # "ok"
             THEN [exc |-> sub.exc, seq |-> YieldedBefore(ss, s, scheme) \o sub.seq]
             ELSE [exc |-> "ok",
                   seq |-> YieldedBefore(ss, s, scheme) \o sub.seq \o YieldedAfter(ss, s, scheme)]

\* "for testsuite in self._testsuites.values(): yield from testsuite.Iterate(...)"
IterateEach(ss, testsuites, i, scheme) ==
    IF i > Len(testsuites)
    THEN [exc |-> "ok", seq |-> <<>>]
    ELSE LET first == TestsuiteIterate(ss, testsuites[i][2], scheme)
         IN  IF first.exc # "ok"
             THEN first
             ELSE LET rest == IterateEach(ss, testsuites, i + 1, scheme)
                  IN  [exc |-> rest.exc, seq |-> first.seq \o rest.seq]

\* Testsuite.IterateTestcases(): Iterate with the default scheme of the method
TestsuiteIterateTestcases(ss, s) == TestsuiteIterate(ss, s, TestcaseDefault)

\* TestsuiteSummary.Iterate(scheme): no assert. The loop calls
\* testsuite.IterateTestsuites, a method Testsuite does not have (its
\* definition is commented out): AttributeError at the first child suite.
TestsuiteSummaryIterate(sm, scheme) ==
    LET before == IF {"IncludeSelf", "IncludeTestsuites", "PreOrder"} \subseteq scheme
                  THEN <<SummaryNode>> ELSE <<>>
        after  == IF {"IncludeSelf", "IncludeTestsuites", "PostOrder"} \subseteq scheme
                  THEN <<SummaryNode>> ELSE <<>>
    IN  IF Len(sm.testsuites) > 0
        THEN [exc |-> "AttributeError", seq |-> before]
        ELSE [exc |-> "ok", seq |-> before \o after]

\* list(testsuite.Iterate(scheme))
IterateTestsuite(s, scheme) ==
    /\ LET r == TestsuiteIterate(suites, s, scheme)
       IN  CalledWith(OpScheme("Testsuite.Iterate", s, scheme), r.exc, NoTuple, r.seq)
    /\ UNCHANGED <<dialect, flatVars, modelVars, docVars>>

\* list(testsuite.IterateTestcases())
IterateTestcasesOf(s) ==
    /\ LET r == TestsuiteIterateTestcases(suites, s)
       IN  CalledWith(OpScheme("Testsuite.IterateTestcases", s, TestcaseDefault), r.exc, NoTuple, r.seq)
    /\ UNCHANGED <<dialect, flatVars, modelVars, docVars>>

\* list(summary.Iterate(scheme))
IterateSummary(scheme) ==
    /\ LET r == TestsuiteSummaryIterate(summary, scheme)
       IN  CalledWith(OpScheme("TestsuiteSummary.Iterate", 0, scheme), r.exc, NoTuple, r.seq)
    /\ UNCHANGED <<dialect, flatVars, modelVars, docVars>>

----------------------------------------------------------------------------
(* Specification of the iterator: a tree is built (as for the aggregation),  *)
(* then its suites and its summary are iterated with any set of flags.       *)

IterateCaseInputs == {<<"Passed", NoneInt>>}

InitIterate ==
    /\ dialect = "JUnit"
    /\ \E nS \in 0..MaxSuites, n \in 0..MaxCases :
          \E in \in [1..n -> IterateCaseInputs], par \in [1..n -> 1..nS] :
              /\ FirstFit(par)
              /\ cases = BuiltCases(in, par)
              /\ suites = BuiltSuites(nS, par)
              /\ summary = BuiltSummary(nS)
    /\ disk = [p \in Paths |-> NoFile]
    /\ Constructed

NextIterate ==
    \/ \E s \in SuiteIds, scheme \in SUBSET IterationFlags : IterateTestsuite(s, scheme)
    \/ \E s \in SuiteIds : IterateTestcasesOf(s)
    \/ \E scheme \in SUBSET IterationFlags : IterateSummary(scheme)

SpecIterate == InitIterate /\ [][NextIterate]_vars

----------------------------------------------------------------------------
(* Properties of the iterator (specification SpecIterate). *)

BothOrders(scheme) == {"PreOrder", "PostOrder"} \subseteq scheme

\* C23: an iteration whose scheme has both PreOrder and PostOrder set is
\* rejected at entry: it raises the contract violation (the failed assert)
\* and no node has been yielded, on a Testsuite and on a TestsuiteSummary,
\* with or without child suites.
C23_BothOrdersRejected ==
    (IsIterate(lastOp) /\ BothOrders(lastOp.scheme)) =>
        /\ lastResult = "AssertionError"
        /\ yielded = <<>>

----------------------------------------------------------------------------
(* Properties of Testcase.Aggregate inside Testsuite.Aggregate               *)
(* (specification Spec, generic classes).                                    *)

\* the case will come out Weak: status Unknown and an assertion count of zero
WeakOutcome(tc) == tc.status = "Unknown" /\ tc.assertionCount = 0

\* nothing else about the case can stop the aggregation: its status is one of
\* the four counted ones, or it is Unknown without assertion count or with
\* an assertion count of zero
Unproblematic(tc) ==
    \/ Countable(tc.status)
    \/ tc.status = "Unknown" /\ tc.assertionCount \in {NoneInt, 0}

\* C24: under strict=True, Aggregate on a suite that holds a case with status
\* Unknown and an assertion count of zero completes without raising and
\* counts that case in failed: the tuple adds up, failed is the number of
\* cases that were Failed or had the Weak outcome, and the suite status is
\* Failed unless a case errored.
C24_StrictWeakCountsAsFailed ==
    [][ ( /\ dialect = "JUnit"
          /\ lastOp'.op = "Testsuite.Aggregate"
          /\ lastOp'.strict
          /\ \E i \in 1..Len(CasesOf(lastOp'.node)) : WeakOutcome(CasesOf(lastOp'.node)[i])
          /\ \A i \in 1..Len(CasesOf(lastOp'.node)) : Unproblematic(CasesOf(lastOp'.node)[i]) )
        => ( /\ lastResult' = "ok"
             /\ AddsUp(ret')
             /\ ret'.failed = Cardinality({i \in 1..Len(CasesOf(lastOp'.node)) :
                                  \/ CasesOf(lastOp'.node)[i].status = "Failed"
                                  \/ WeakOutcome(CasesOf(lastOp'.node)[i])})
             /\ suites'[lastOp'.node].status = IF ret'.errored > 0 THEN "Errored" ELSE "Failed" ) ]_vars

----------------------------------------------------------------------------
(* Specification of Testcase.Aggregate called on its own: a tree is built    *)
(* (as for the aggregation, generic classes), then Aggregate is called on    *)
(* its cases.                                                                *)

\* testcase.Aggregate(strict)
CaseAggregate(c, strict) ==
    /\ LET r == TestcaseAggregate(cases[c], strict)
       IN  /\ cases' = [cases EXCEPT ![c] = r.tc]
           /\ Called(Op("Testcase.Aggregate", c, strict), r.exc, NoTuple)
    /\ UNCHANGED <<dialect, flatVars, suites, summary, docVars>>

InitTestcase ==
    /\ dialect = "JUnit"
    /\ \E nS \in 0..MaxSuites, n \in 0..MaxCases :
          \E in \in [1..n -> CaseInputs], par \in [1..n -> 1..nS] :
              /\ FirstFit(par)
              /\ cases = BuiltCases(in, par)
              /\ suites = BuiltSuites(nS, par)
              /\ summary = BuiltSummary(nS)
    /\ disk = [p \in Paths |-> NoFile]
    /\ Constructed

NextTestcase == \E c \in CaseIds, strict \in BOOLEAN : CaseAggregate(c, strict)

SpecTestcase == InitTestcase /\ [][NextTestcase]_vars

\* C25: Testcase.Aggregate completes without error; a case whose status is
\* not Unknown on entry is unchanged; a case whose status is Unknown gets
\* Passed when no assertion count is recorded, Weak when the count is zero,
\* and Passed or Failed (by its failed assertions) when the count is nonzero;
\* nothing but the status changes.
C25_CaseResolution ==
    [][ lastOp'.op = "Testcase.Aggregate" =>
            LET o == cases[lastOp'.node]
                n == cases'[lastOp'.node]
            IN  /\ lastResult' = "ok"
                /\ [n EXCEPT !.status = o.status] = o
                /\ o.status # "Unknown" => n.status = o.status
                /\ (o.status = "Unknown" /\ o.assertionCount = NoneInt) => n.status = "Passed"
                /\ (o.status = "Unknown" /\ o.assertionCount = 0) => n.status = "Weak"
                /\ (o.status = "Unknown" /\ o.assertionCount > 0) => n.status \in {"Passed", "Failed"} ]_vars

----------------------------------------------------------------------------
(* Further properties of the document protocol (specification SpecDoc). *)

\* the file at "in" is one the parser rejects (syntax or schema)
RejectedInput == disk["in"].kind = "invalid"

\* C26: a Read of a file the parser rejects returns without raising and the
\* document then holds no tree, whatever was called before; a Parse called
\* right after it raises the state error (UnittestException).
C26_FailedReadLeavesNoTree ==
    [][ /\ (lastOp'.op = "Read" /\ RejectedInput)
            => (lastResult' = "ok" /\ xmlDocument' = NoDoc)
        /\ (lastOp.op = "Read" /\ RejectedInput /\ lastOp'.op = "Parse")
            => lastResult' = "UnittestException" ]_vars

\* the suite itself, when the scheme asks for it
SelfIf(s, scheme) ==
    IF "IncludeSelf" \in scheme /\ "IncludeTestsuites" \in scheme THEN <<<<"suite", s>>>> ELSE <<>>

\* the direct cases of the suite in insertion order, when the scheme asks for them
CasesIf(s, scheme) ==
    IF "IncludeTestcases" \in scheme
    THEN [k \in 1..Len(suites[s].testcases) |-> <<"case", suites[s].testcases[k][2]>>]
    ELSE <<>>

\* C27: a pre-order iteration of a Testsuite yields the suite itself if
\* IncludeSelf and IncludeTestsuites are set, then its direct cases in
\* insertion order if IncludeTestcases is set, then the iterations of its
\* child suites (a generic Testsuite holds none), and is then exhausted.
C27_PreOrderSequence ==
    (lastOp.op = "Testsuite.Iterate" /\ "PreOrder" \in lastOp.scheme /\ "PostOrder" \notin lastOp.scheme) =>
        /\ yielded = SelfIf(lastOp.node, lastOp.scheme) \o CasesIf(lastOp.node, lastOp.scheme)
        /\ lastResult = "ok"

\* C28: a post-order iteration of a Testsuite yields the iterations of its
\* child suites (a generic Testsuite holds none), then its direct cases in
\* insertion order if IncludeTestcases is set, then the suite itself if
\* IncludeSelf and IncludeTestsuites are set, and is then exhausted.
C28_PostOrderSequence ==
    (lastOp.op = "Testsuite.Iterate" /\ "PostOrder" \in lastOp.scheme /\ "PreOrder" \notin lastOp.scheme) =>
        /\ yielded = CasesIf(lastOp.node, lastOp.scheme) \o SelfIf(lastOp.node, lastOp.scheme)
        /\ lastResult = "ok"

\* the cases below the node an iteration was called on: the cases of the
\* suite, or the cases of all suites of the summary
CasesBelow(op) ==
    IF op.op = "TestsuiteSummary.Iterate"
    THEN {c \in CaseIds : \E k \in 1..Len(summary.testsuites) :
                              InTestcases(summary.testsuites[k][2], c)}
    ELSE {c \in CaseIds : InTestcases(op.node, c)}

NoNodeTwice(seq) == \A i \in 1..Len(seq) : \A j \in 1..Len(seq) : seq[i] = seq[j] => i = j

\* C30: an iteration whose scheme has at most one of PreOrder and PostOrder
\* set comes to its end without an exception and yields no node twice; with
\* IncludeTestcases and one of the order flags set it yields every case
\* below the node; IterateTestcases yields cases only; and the iteration that
\* repeats the one before it on the unchanged tree yields the same sequence.
C30_IterationIsFiniteAndComplete ==
    [][ (IsIterate(lastOp') /\ ~BothOrders(lastOp'.scheme)) =>
            /\ NoNodeTwice(yielded')
            /\ lastOp'.op = "Testsuite.IterateTestcases" =>
                  \A i \in 1..Len(yielded') : yielded'[i][1] = "case"
            /\ (lastOp' = lastOp /\ modelVars' = modelVars) => yielded' = yielded
            /\ ( /\ "IncludeTestcases" \in lastOp'.scheme
                 /\ lastOp'.scheme \cap {"PreOrder", "PostOrder"} # {} ) =>
                  \A c \in CasesBelow(lastOp') : \E i \in 1..Len(yielded') : yielded'[i] = <<"case", c>>
            /\ lastResult' = "ok" ]_vars

----------------------------------------------------------------------------
(* Kinds of the suites ToTestsuite creates (specification SpecFlatten). *)

ToTestsuiteReturned == lastOp.op = "ToTestsuite" /\ lastResult = "ok"

\* the name of testclass i of the flattened suite j ends at the suite of path
EndsAt(j, i, path) == j.testclasses[i][1] = path

\* the name of testclass i is the path and one more segment
EndsBelow(j, i, path) ==
    LET name == j.testclasses[i][1]
    IN  Len(name) = Len(path) + 1 /\ SubSeq(name, 1, Len(path)) = path

\* the path is the name of testclass i without some of its last segments
PassesThrough(j, i, path) ==
    LET name == j.testclasses[i][1]
    IN  Len(name) > Len(path) /\ SubSeq(name, 1, Len(path)) = path

\* the last testclass of j, in the order of the dictionary, whose name is the
\* path or the path and one more segment; 0 when there is none
LastToTag(j, path) ==
    LET tags == {i \in 1..Len(j.testclasses) : EndsAt(j, i, path) \/ EndsBelow(j, i, path)}
    IN  IF tags = {} THEN 0 ELSE CHOOSE i \in tags : \A x \in tags : x <= i

TaggedKind(j, path) ==
    IF LastToTag(j, path) = 0 THEN TestsuiteKind.Package
    ELSE IF EndsAt(j, LastToTag(j, path), path) THEN TestsuiteKind.Class
    ELSE TestsuiteKind.Module

====
